---- MODULE Spec2Model ----
(***************************************************************************)
(* rans-rs: streaming rANS encoders and decoders (byte-aligned variant     *)
(* with 32-bit state and 8-bit IO units, word-aligned variant with 64-bit  *)
(* state and 32-bit IO units), N interleaved channels over one buffer.     *)
(*                                                                         *)
(* TLC integers are 32 bits wide, so every machine integer of the coder    *)
(* (u32 / u64 state, 64 / 128 bit products) is a little-endian string of   *)
(* base-256 digits of fixed length; arithmetic wraps at that length as the *)
(* unsigned arithmetic of the code does.  The host is little-endian, as    *)
(* the byte fixtures of the word-aligned tests require.                    *)
(***************************************************************************)
EXTENDS Integers, Sequences, FiniteSets, TLC

(***************************************************************************)
(* Wrapping unsigned arithmetic on digit strings.                          *)
(***************************************************************************)
Pow2(k) == 2^k

Digit(a, i) == IF i >= 1 /\ i <= Len(a) THEN a[i] ELSE 0

\* v < 2^31 as an n-digit string
FromNat(v, n) == [i \in 1..n |-> IF i > 4 THEN 0 ELSE (v \div (256^(i-1))) % 256]

\* truncation or zero extension to n digits (an integer cast)
Resize(a, n) == [i \in 1..n |-> Digit(a, i)]

IsZero(a) == \A i \in 1..Len(a) : a[i] = 0

\* a < b
Less(a, b) ==
    LET n == IF Len(a) > Len(b) THEN Len(a) ELSE Len(b)
        d == {i \in 1..n : Digit(a, i) # Digit(b, i)}
    IN  d # {} /\ LET m == CHOOSE i \in d : \A j \in d : j <= i
                  IN  Digit(a, m) < Digit(b, m)

\* a + b modulo 256^Len(a)
RECURSIVE AddFrom(_, _, _, _, _)
AddFrom(a, b, i, carry, acc) ==
    IF i > Len(a) THEN acc
    ELSE AddFrom(a, b, i + 1, (a[i] + Digit(b, i) + carry) \div 256,
                 Append(acc, (a[i] + Digit(b, i) + carry) % 256))

Add(a, b) == AddFrom(a, b, 1, 0, <<>>)

\* a - b modulo 256^Len(a)
RECURSIVE SubFrom(_, _, _, _, _)
SubFrom(a, b, i, borrow, acc) ==
    IF i > Len(a) THEN acc
    ELSE SubFrom(a, b, i + 1, IF a[i] - Digit(b, i) - borrow < 0 THEN 1 ELSE 0,
                 Append(acc, (a[i] - Digit(b, i) - borrow + 256) % 256))

Sub(a, b) == SubFrom(a, b, 1, 0, <<>>)

\* a * m modulo 256^Len(a), for m < 2^22
RECURSIVE MulSmallFrom(_, _, _, _, _)
MulSmallFrom(a, m, i, carry, acc) ==
    IF i > Len(a) THEN acc
    ELSE MulSmallFrom(a, m, i + 1, (a[i] * m + carry) \div 256,
                      Append(acc, (a[i] * m + carry) % 256))

MulSmall(a, m) == MulSmallFrom(a, m, 1, 0, <<>>)

\* the sum of a[i] * b[k + 1 - i] over the digits of column k
RECURSIVE ColSum(_, _, _, _)
ColSum(a, b, k, i) ==
    IF i > k \/ i > Len(a) THEN 0
    ELSE (IF k + 1 - i <= Len(b) THEN a[i] * b[k + 1 - i] ELSE 0) + ColSum(a, b, k, i + 1)

\* the full product a * b, Len(a) + Len(b) digits (a widening multiply)
RECURSIVE MulWideFrom(_, _, _, _, _)
MulWideFrom(a, b, k, carry, acc) ==
    IF k > Len(a) + Len(b) THEN acc
    ELSE LET t == ColSum(a, b, k, 1) + carry
         IN  MulWideFrom(a, b, k + 1, t \div 256, Append(acc, t % 256))

MulWide(a, b) == MulWideFrom(a, b, 1, 0, <<>>)

\* floor(a / m) and a mod m, for 0 < m < 2^22: [q, r], from the top digit down
RECURSIVE DivModFrom(_, _, _, _, _)
DivModFrom(a, m, i, rem, acc) ==
    IF i < 1 THEN [q |-> acc, r |-> rem]
    ELSE DivModFrom(a, m, i - 1, (rem * 256 + a[i]) % m,
                    <<(rem * 256 + a[i]) \div m>> \o acc)

DivSmall(a, m) == DivModFrom(a, m, Len(a), 0, <<>>).q

ModSmall(a, m) == DivModFrom(a, m, Len(a), 0, <<>>).r

\* a >> k
ShrBits(a, k) ==
    LET q == k \div 8
        r == k % 8
    IN  [i \in 1..Len(a) |->
            ((Digit(a, i + q) \div Pow2(r)) + Digit(a, i + q + 1) * Pow2(8 - r)) % 256]

\* a << k modulo 256^Len(a)
ShlBits(a, k) ==
    LET q == k \div 8
        r == k % 8
    IN  [i \in 1..Len(a) |->
            (Digit(a, i - q) * Pow2(r) + (Digit(a, i - q - 1) \div Pow2(8 - r))) % 256]

\* a & ((1 << k) - 1) as a number, for k <= 22
LowBits(a, k) == (Digit(a, 1) + 256 * Digit(a, 2) + 65536 * (Digit(a, 3) % 64)) % Pow2(k)

\* the all-ones value of n digits (~0)
AllOnes(n) == [i \in 1..n |-> 255]

\* 1 << k as an n-digit string
OneShl(k, n) == ShlBits(FromNat(1, n), k)

(***************************************************************************)
(* Raw memory behind the cursors.  A buffer is a byte string, a cursor a   *)
(* byte offset from its start.  A store outside the buffer changes no      *)
(* byte of it (it lands in foreign memory); a load outside the buffer      *)
(* yields an arbitrary byte, given by the caller as junk.                  *)
(***************************************************************************)
StoreBytes(buf, off, bs) ==
    [i \in 1..Len(buf) |->
        IF i - 1 >= off /\ i - 1 < off + Len(bs) THEN bs[i - off] ELSE buf[i]]

InBuf(buf, off, n) == off >= 0 /\ off + n <= Len(buf)

LoadBytes(buf, off, n, junk) ==
    [i \in 1..n |-> IF off + i >= 1 /\ off + i <= Len(buf) THEN buf[off + i] ELSE junk]

(***************************************************************************)
(* ryg_rans_sys::rans_byte : 32-bit state, 8-bit IO units.                 *)
(***************************************************************************)
RANS_BYTE_L == OneShl(23, 4)

rans_enc_init == RANS_BYTE_L

\* smallest shift with freq <= 1 << shift
RECURSIVE RcpShift(_, _)
RcpShift(freq, shift) == IF freq > Pow2(shift) THEN RcpShift(freq, shift + 1) ELSE shift

\* symbol_init that gives a symbol of frequency 1 the bias of the other symbols
rans_enc_symbol_init_plain_bias(start, freq, scale_bits) ==
    LET x_max == MulSmall(ShlBits(ShrBits(RANS_BYTE_L, scale_bits), 8), freq)
        cmpl  == (Pow2(scale_bits) - freq) % 65536
    IN  IF freq < 2
        THEN [x_max |-> x_max, rcp_freq |-> AllOnes(4), bias |-> start,
              cmpl_freq |-> cmpl, rcp_shift |-> 0]
        ELSE LET shift == RcpShift(freq, 0)
             IN  [x_max |-> x_max,
                  rcp_freq |-> Resize(DivSmall(Add(OneShl(shift + 31, 8),
                                                   FromNat(freq - 1, 8)), freq), 4),
                  bias |-> start, cmpl_freq |-> cmpl, rcp_shift |-> shift - 1]

rans_enc_symbol_init(start, freq, scale_bits) ==
    LET x_max == MulSmall(ShlBits(ShrBits(RANS_BYTE_L, scale_bits), 8), freq)
        cmpl  == (Pow2(scale_bits) - freq) % 65536
    IN  IF freq < 2
        THEN [x_max |-> x_max, rcp_freq |-> AllOnes(4), bias |-> start + Pow2(scale_bits) - 1,
              cmpl_freq |-> cmpl, rcp_shift |-> 0]
        ELSE LET shift == RcpShift(freq, 0)
             IN  [x_max |-> x_max,
                  rcp_freq |-> Resize(DivSmall(Add(OneShl(shift + 31, 8),
                                                   FromNat(freq - 1, 8)), freq), 4),
                  bias |-> start, cmpl_freq |-> cmpl, rcp_shift |-> shift - 1]

\* do { *--ptr = x & 0xff; x >>= 8; } while (x >= x_max), entered when x >= x_max.
\* m = [x, buf, ptr, oob, out]: oob records a store outside the buffer, out the
\* groups of bytes stored, in the order of the stores.  With x_max = 0 the loop of
\* the code never exits: it is cut here when the cursor has left the buffer.
RECURSIVE RansEncRenorm(_, _)
RansEncRenorm(m, x_max) ==
    IF Less(m.x, x_max) \/ (IsZero(x_max) /\ m.ptr < 0) THEN m
    ELSE RansEncRenorm([x   |-> ShrBits(m.x, 8),
                        buf |-> StoreBytes(m.buf, m.ptr - 1, <<m.x[1]>>),
                        ptr |-> m.ptr - 1,
                        oob |-> m.oob \/ ~InBuf(m.buf, m.ptr - 1, 1),
                        out |-> Append(m.out, <<m.x[1]>>)], x_max)

\* put_symbol that leaves out the renormalization
rans_enc_put_symbol_no_renorm(x, buf, ptr, sym) ==
    LET m == [x |-> x, buf |-> buf, ptr |-> ptr, oob |-> FALSE, out |-> <<>>]
        q == ShrBits(SubSeq(MulWide(m.x, sym.rcp_freq), 5, 8), sym.rcp_shift)
    IN  [m EXCEPT !.x = Add(Add(m.x, FromNat(sym.bias, 4)), MulSmall(q, sym.cmpl_freq))]

rans_enc_put_symbol(x, buf, ptr, sym) ==
    LET m == RansEncRenorm([x |-> x, buf |-> buf, ptr |-> ptr, oob |-> FALSE, out |-> <<>>],
                           sym.x_max)
        q == ShrBits(SubSeq(MulWide(m.x, sym.rcp_freq), 5, 8), sym.rcp_shift)
    IN  [m EXCEPT !.x = Add(Add(m.x, FromNat(sym.bias, 4)), MulSmall(q, sym.cmpl_freq))]

\* flush that leaves the state at its initial value
rans_enc_flush_restarts(x, buf, ptr) ==
    [x |-> RANS_BYTE_L, buf |-> StoreBytes(buf, ptr - 4, x), ptr |-> ptr - 4,
     oob |-> ~InBuf(buf, ptr - 4, 4), out |-> <<x>>]

rans_enc_flush(x, buf, ptr) ==
    [x |-> x, buf |-> StoreBytes(buf, ptr - 4, x), ptr |-> ptr - 4,
     oob |-> ~InBuf(buf, ptr - 4, 4), out |-> <<x>>]

\* m = [x, ptr, oob]
\* init that takes the four bytes most significant first
rans_dec_init_big_endian(data, ptr, junk) ==
    [x |-> [i \in 1..4 |-> LoadBytes(data, ptr, 4, junk)[5 - i]], ptr |-> ptr + 4,
     oob |-> ~InBuf(data, ptr, 4)]

rans_dec_init(data, ptr, junk) ==
    [x |-> LoadBytes(data, ptr, 4, junk), ptr |-> ptr + 4, oob |-> ~InBuf(data, ptr, 4)]

\* the state is passed by mutable reference: x is the state left behind, ret the result
rans_dec_get(x, scale_bits) == [x |-> x, ret |-> LowBits(x, scale_bits)]

rans_dec_symbol_init(start, freq) == [start |-> start % 65536, freq |-> freq % 65536]

\* advance step that leaves out the subtraction of the symbol's start
rans_dec_advance_symbol_step_keeps_start(x, sym, scale_bits) ==
    Add(MulSmall(ShrBits(x, scale_bits), sym.freq),
        FromNat(LowBits(x, scale_bits), 4))

rans_dec_advance_symbol_step(x, sym, scale_bits) ==
    Sub(Add(MulSmall(ShrBits(x, scale_bits), sym.freq),
            FromNat(LowBits(x, scale_bits), 4)),
        FromNat(sym.start, 4))

\* do x = (x << 8) | *ptr++; while (x < RANS_BYTE_L), entered when x < RANS_BYTE_L.
\* Over zero bytes a zero state never reaches RANS_BYTE_L: the loop is cut here
\* when it reads zeros from outside the buffer.
RECURSIVE RansDecRenormLoop(_, _, _)
RansDecRenormLoop(m, data, junk) ==
    IF ~Less(m.x, RANS_BYTE_L) \/ (IsZero(m.x) /\ junk = 0 /\ m.ptr >= Len(data)) THEN m
    ELSE RansDecRenormLoop(
            [x   |-> Add(ShlBits(m.x, 8), LoadBytes(data, m.ptr, 1, junk)),
             ptr |-> m.ptr + 1,
             oob |-> m.oob \/ ~InBuf(data, m.ptr, 1)], data, junk)

\* renorm that reads at most one byte
rans_dec_renorm_once(x, data, ptr, junk) ==
    IF ~Less(x, RANS_BYTE_L) THEN [x |-> x, ptr |-> ptr, oob |-> FALSE]
    ELSE [x   |-> Add(ShlBits(x, 8), LoadBytes(data, ptr, 1, junk)),
          ptr |-> ptr + 1,
          oob |-> ~InBuf(data, ptr, 1)]

rans_dec_renorm(x, data, ptr, junk) ==
    RansDecRenormLoop([x |-> x, ptr |-> ptr, oob |-> FALSE], data, junk)

rans_dec_advance_symbol(x, data, ptr, sym, scale_bits, junk) ==
    rans_dec_renorm(rans_dec_advance_symbol_step(x, sym, scale_bits), data, ptr, junk)

(***************************************************************************)
(* ryg_rans_sys::rans_64 : 64-bit state, 32-bit IO units.                  *)
(***************************************************************************)
RANS64_L == OneShl(31, 8)

rans_64_enc_init == RANS64_L

\* symbol_init that records one less than the frequency
rans_64_enc_symbol_init_freq_less_one(start, freq, scale_bits) ==
    LET cmpl == Pow2(scale_bits) - freq
    IN  IF freq < 2
        THEN [rcp_freq |-> AllOnes(8), freq |-> freq - 1, bias |-> start + Pow2(scale_bits) - 1,
              cmpl_freq |-> cmpl, rcp_shift |-> 0]
        ELSE LET shift == RcpShift(freq, 0)
             IN  [rcp_freq |-> Resize(DivSmall(Add(OneShl(shift + 63, 16),
                                                   FromNat(freq - 1, 16)), freq), 8),
                  freq |-> freq - 1, bias |-> start, cmpl_freq |-> cmpl, rcp_shift |-> shift - 1]

rans_64_enc_symbol_init(start, freq, scale_bits) ==
    LET cmpl == Pow2(scale_bits) - freq
    IN  IF freq < 2
        THEN [rcp_freq |-> AllOnes(8), freq |-> freq, bias |-> start + Pow2(scale_bits) - 1,
              cmpl_freq |-> cmpl, rcp_shift |-> 0]
        ELSE LET shift == RcpShift(freq, 0)
             IN  [rcp_freq |-> Resize(DivSmall(Add(OneShl(shift + 63, 16),
                                                   FromNat(freq - 1, 16)), freq), 8),
                  freq |-> freq, bias |-> start, cmpl_freq |-> cmpl, rcp_shift |-> shift - 1]

\* put_symbol whose quotient leaves out the shift by rcp_shift
rans_64_enc_put_symbol_unshifted(x, buf, ptr, sym, scale_bits) ==
    LET x_max == MulSmall(ShlBits(ShrBits(RANS64_L, scale_bits), 32), sym.freq)
        m == IF Less(x, x_max)
             THEN [x |-> x, buf |-> buf, ptr |-> ptr, oob |-> FALSE, out |-> <<>>]
             ELSE [x   |-> ShrBits(x, 32),
                   buf |-> StoreBytes(buf, ptr - 4, SubSeq(x, 1, 4)),
                   ptr |-> ptr - 4,
                   oob |-> ~InBuf(buf, ptr - 4, 4),
                   out |-> <<SubSeq(x, 1, 4)>>]
        q == SubSeq(MulWide(m.x, sym.rcp_freq), 9, 16)
    IN  [m EXCEPT !.x = Add(Add(m.x, FromNat(sym.bias, 8)),
                            Resize(MulWide(q, FromNat(sym.cmpl_freq, 4)), 8))]

rans_64_enc_put_symbol(x, buf, ptr, sym, scale_bits) ==
    LET x_max == MulSmall(ShlBits(ShrBits(RANS64_L, scale_bits), 32), sym.freq)
        m == IF Less(x, x_max)
             THEN [x |-> x, buf |-> buf, ptr |-> ptr, oob |-> FALSE, out |-> <<>>]
             ELSE [x   |-> ShrBits(x, 32),
                   buf |-> StoreBytes(buf, ptr - 4, SubSeq(x, 1, 4)),
                   ptr |-> ptr - 4,
                   oob |-> ~InBuf(buf, ptr - 4, 4),
                   out |-> <<SubSeq(x, 1, 4)>>]
        q == ShrBits(SubSeq(MulWide(m.x, sym.rcp_freq), 9, 16), sym.rcp_shift)
    IN  [m EXCEPT !.x = Add(Add(m.x, FromNat(sym.bias, 8)),
                            Resize(MulWide(q, FromNat(sym.cmpl_freq, 4)), 8))]

rans_64_enc_flush(x, buf, ptr) ==
    [x |-> x, buf |-> StoreBytes(buf, ptr - 8, x), ptr |-> ptr - 8,
     oob |-> ~InBuf(buf, ptr - 8, 8), out |-> <<x>>]

rans_64_dec_init(data, ptr, junk) ==
    [x |-> LoadBytes(data, ptr, 8, junk), ptr |-> ptr + 8, oob |-> ~InBuf(data, ptr, 8)]

rans_64_dec_get(x, scale_bits) == [x |-> x, ret |-> LowBits(x, scale_bits)]

rans_64_dec_symbol_init(start, freq) == [start |-> start, freq |-> freq]

rans_64_dec_advance_symbol_step(x, sym, scale_bits) ==
    Sub(Add(MulSmall(ShrBits(x, scale_bits), sym.freq),
            FromNat(LowBits(x, scale_bits), 8)),
        FromNat(sym.start, 8))

\* renorm that steps the cursor back over the word it read
rans_64_dec_renorm_steps_back(x, data, ptr, junk) ==
    IF Less(x, RANS64_L)
    THEN [x   |-> Add(ShlBits(x, 32), LoadBytes(data, ptr, 4, junk)),
          ptr |-> ptr - 4,
          oob |-> ~InBuf(data, ptr, 4)]
    ELSE [x |-> x, ptr |-> ptr, oob |-> FALSE]

rans_64_dec_renorm(x, data, ptr, junk) ==
    IF Less(x, RANS64_L)
    THEN [x   |-> Add(ShlBits(x, 32), LoadBytes(data, ptr, 4, junk)),
          ptr |-> ptr + 4,
          oob |-> ~InBuf(data, ptr, 4)]
    ELSE [x |-> x, ptr |-> ptr, oob |-> FALSE]

rans_64_dec_advance_symbol(x, data, ptr, sym, scale_bits, junk) ==
    rans_64_dec_renorm(rans_64_dec_advance_symbol_step(x, sym, scale_bits), data, ptr, junk)

(***************************************************************************)
(* Builds.  debug_assert!(cond) panics in a debug build when cond is false *)
(* and is not evaluated in a release build.  An encoder or decoder is a    *)
(* record; status is "ok", "assert" (a debug_assert! failed and the call    *)
(* unwound), "panic" (another panic unwound the call: assert!, an index    *)
(* out of bounds) or "ub" (a load or store outside the buffer has happened *)
(* and nothing stopped the call).                                          *)
(***************************************************************************)
Builds == {"debug", "release"}

DebugAssertFails(build, cond) == build = "debug" /\ ~cond

AssertFailed(e) == [e EXCEPT !.status = "assert"]

Panic(e) == [e EXCEPT !.status = "panic"]

Zeros(n) == [i \in 1..n |-> 0]

\* the content of MaybeUninit::uninit().assume_init(): arbitrary, overwritten before use
Uninit(n, w) == [i \in 1..n |-> AllOnes(w)]

\* check_enc_pointer!(self)
check_enc_pointer(e, valid, build) ==
    IF DebugAssertFails(build, valid) THEN AssertFailed(e) ELSE e

\* check_dec_pointer!(self)
\* check_dec_pointer! compiled to nothing
check_dec_pointer_off(d, valid, build) == d

check_dec_pointer(d, valid, build) ==
    IF DebugAssertFails(build, valid) THEN AssertFailed(d) ELSE d

(***************************************************************************)
(* byte_encoder.rs : ByteRansEncoderMulti<N>, ByteRansEncSymbol.           *)
(* e = [states, dst, ptr, status, oob, out]; channels are numbered from 0, *)
(* states[channel + 1] is the register of a channel.  oob: a store outside *)
(* dst has happened; out: the groups of bytes stored by the last call.     *)
(***************************************************************************)
\* is_ptr_valid that accepts every cursor
byte_is_ptr_valid_always(e) == TRUE

byte_is_ptr_valid(e) == 0 <= e.ptr /\ e.ptr <= Len(e.dst)

\* reset that rewinds the cursor and leaves the channel states as they are
byte_reset_keeps_states(e) == [e EXCEPT !.ptr = Len(e.dst), !.out = <<>>]

byte_reset(e) ==
    [e EXCEPT !.states = [i \in DOMAIN e.states |-> rans_enc_init],
              !.ptr = Len(e.dst), !.out = <<>>]

byte_new(max_len, n) ==
    byte_reset([states |-> Uninit(n, 4), dst |-> Zeros(max_len), ptr |-> 0,
                status |-> "ok", oob |-> FALSE, out |-> <<>>])

\* new that hands the library a scale wider by the 8 bits of an IO unit
ByteRansEncSymbol_new_wide_scale(cum_freq, freq, scale_bits) ==
    [symbol |-> rans_enc_symbol_init(cum_freq, freq, scale_bits + 8)]

ByteRansEncSymbol_new(cum_freq, freq, scale_bits) ==
    [symbol |-> rans_enc_symbol_init(cum_freq, freq, scale_bits)]

\* put_at that drops the cursor the library call hands back
byte_put_at_drops_cursor(e, channel, symbol, build) ==
    IF DebugAssertFails(build, channel <= Len(e.states)) THEN AssertFailed(e)
    ELSE IF channel >= Len(e.states) THEN Panic(e)
    ELSE LET m == rans_enc_put_symbol(e.states[channel + 1], e.dst, e.ptr, symbol.symbol)
         IN  [e EXCEPT !.states[channel + 1] = m.x, !.dst = m.buf, !.out = m.out]

byte_put_at(e, channel, symbol, build) ==
    IF DebugAssertFails(build, channel <= Len(e.states)) THEN AssertFailed(e)
    ELSE IF channel >= Len(e.states) THEN Panic(e)
    ELSE LET m  == rans_enc_put_symbol(e.states[channel + 1], e.dst, e.ptr, symbol.symbol)
             e2 == [e EXCEPT !.states[channel + 1] = m.x, !.dst = m.buf, !.ptr = m.ptr,
                             !.oob = m.oob, !.out = m.out,
                             !.status = IF m.oob THEN "ub" ELSE "ok"]
         IN  check_enc_pointer(e2, byte_is_ptr_valid(e2), build)

\* flush_at that flushes the first channel whatever the channel asked for
byte_flush_at_first(e, channel, build) ==
    LET m == rans_enc_flush(e.states[1], e.dst, e.ptr)
    IN  [e EXCEPT !.states[1] = m.x, !.dst = m.buf, !.ptr = m.ptr, !.oob = m.oob,
                  !.out = m.out, !.status = IF m.oob THEN "ub" ELSE "ok"]

byte_flush_at(e, channel, build) ==
    IF DebugAssertFails(build, channel <= Len(e.states)) THEN AssertFailed(e)
    ELSE IF channel >= Len(e.states) THEN Panic(e)
    ELSE LET m  == rans_enc_flush(e.states[channel + 1], e.dst, e.ptr)
             e2 == [e EXCEPT !.states[channel + 1] = m.x, !.dst = m.buf, !.ptr = m.ptr,
                             !.oob = m.oob, !.out = m.out,
                             !.status = IF m.oob THEN "ub" ELSE "ok"]
         IN  check_enc_pointer(e2, byte_is_ptr_valid(e2), build)

\* &self.dst[start_index..]
byte_data(e) == SubSeq(e.dst, e.ptr + 1, Len(e.dst))

(***************************************************************************)
(* b64_encoder.rs : B64RansEncoderMulti<N>, B64RansEncSymbol.  dst is a    *)
(* Vec<u32> of max_len / 4 words, kept here as its 4 * (max_len / 4) bytes;*)
(* ptr is the byte offset of the *mut u32 cursor.                          *)
(***************************************************************************)
\* is_ptr_valid whose range leaves out the start of the buffer
b64_is_ptr_valid_above_start(e) == 0 < e.ptr /\ e.ptr <= Len(e.dst)

b64_is_ptr_valid(e) == 0 <= e.ptr /\ e.ptr <= Len(e.dst)

\* the capacity of vec![0; n] is n words
b64_capacity(e) == Len(e.dst) \div 4

b64_reset(e) ==
    [e EXCEPT !.states = [i \in DOMAIN e.states |-> rans_64_enc_init],
              !.ptr = 4 * b64_capacity(e), !.out = <<>>]

b64_new(max_len, n) ==
    b64_reset([states |-> Uninit(n, 8), dst |-> Zeros(4 * (max_len \div 4)), ptr |-> 0,
               status |-> "ok", oob |-> FALSE, out |-> <<>>])

B64RansEncSymbol_new(cum_freq, freq, scale_bits) ==
    [symbol |-> rans_64_enc_symbol_init(cum_freq, freq, scale_bits),
     scale_bits |-> scale_bits]

\* put_at that drops the cursor the library call hands back
b64_put_at_drops_cursor(e, channel, symbol, build) ==
    IF DebugAssertFails(build, channel <= Len(e.states)) THEN AssertFailed(e)
    ELSE IF channel >= Len(e.states) THEN Panic(e)
    ELSE LET m == rans_64_enc_put_symbol(e.states[channel + 1], e.dst, e.ptr,
                                         symbol.symbol, symbol.scale_bits)
         IN  [e EXCEPT !.states[channel + 1] = m.x, !.dst = m.buf, !.out = m.out]

b64_put_at(e, channel, symbol, build) ==
    IF DebugAssertFails(build, channel <= Len(e.states)) THEN AssertFailed(e)
    ELSE IF channel >= Len(e.states) THEN Panic(e)
    ELSE LET m  == rans_64_enc_put_symbol(e.states[channel + 1], e.dst, e.ptr,
                                          symbol.symbol, symbol.scale_bits)
             e2 == [e EXCEPT !.states[channel + 1] = m.x, !.dst = m.buf, !.ptr = m.ptr,
                             !.oob = m.oob, !.out = m.out,
                             !.status = IF m.oob THEN "ub" ELSE "ok"]
         IN  check_enc_pointer(e2, b64_is_ptr_valid(e2), build)

b64_flush_at(e, channel, build) ==
    IF DebugAssertFails(build, channel <= Len(e.states)) THEN AssertFailed(e)
    ELSE IF channel >= Len(e.states) THEN Panic(e)
    ELSE LET m  == rans_64_enc_flush(e.states[channel + 1], e.dst, e.ptr)
             e2 == [e EXCEPT !.states[channel + 1] = m.x, !.dst = m.buf, !.ptr = m.ptr,
                             !.oob = m.oob, !.out = m.out,
                             !.status = IF m.oob THEN "ub" ELSE "ok"]
         IN  check_enc_pointer(e2, b64_is_ptr_valid(e2), build)

\* data() that takes the length in words for the length in bytes
b64_data_len_in_words(e) ==
    SubSeq(e.dst, e.ptr + 1, e.ptr + (b64_capacity(e) - e.ptr \div 4))

\* slice::from_raw_parts(self.ptr as *const u8, len * 4)
b64_data(e) ==
    LET start_index == e.ptr \div 4
        len         == b64_capacity(e) - start_index
    IN  SubSeq(e.dst, e.ptr + 1, e.ptr + len * 4)

(***************************************************************************)
(* encoder.rs : the traits RansEncoderMulti<N>, RansEncoder, RansEncSymbol.*)
(* v is the implementing type: "byte" or "b64".                            *)
(***************************************************************************)
Variants == {"byte", "b64"}

\* W / 8: the bytes of a state register
StateBytes(v) == IF v = "byte" THEN 4 ELSE 8

\* IO_BITS / 8: the bytes of an IO unit
IoBytes(v) == IF v = "byte" THEN 1 ELSE 4

\* the initial state L
LowerBound(v) == IF v = "byte" THEN RANS_BYTE_L ELSE RANS64_L

EncoderNew(v, max_len, n) == IF v = "byte" THEN byte_new(max_len, n) ELSE b64_new(max_len, n)

EncSymbolNew(v, cum_freq, freq, scale_bits) ==
    IF v = "byte" THEN ByteRansEncSymbol_new(cum_freq, freq, scale_bits)
    ELSE B64RansEncSymbol_new(cum_freq, freq, scale_bits)

reset(v, e) == IF v = "byte" THEN byte_reset(e) ELSE b64_reset(e)

\* put_at that encodes on channel 0 whatever the channel asked for
put_at_first_channel(v, e, channel, symbol, build) ==
    IF v = "byte" THEN byte_put_at(e, 0, symbol, build)
    ELSE b64_put_at(e, 0, symbol, build)

put_at(v, e, channel, symbol, build) ==
    IF v = "byte" THEN byte_put_at(e, channel, symbol, build)
    ELSE b64_put_at(e, channel, symbol, build)

flush_at(v, e, channel, build) ==
    IF v = "byte" THEN byte_flush_at(e, channel, build) ELSE b64_flush_at(e, channel, build)

\* for i in 0..N { self.flush_at(i); }  (a panic ends the loop)
RECURSIVE FlushFrom(_, _, _, _)
FlushFrom(v, e, i, build) ==
    IF i >= Len(e.states) \/ e.status # "ok" THEN e
    ELSE FlushFrom(v, flush_at(v, e, i, build), i + 1, build)

\* flush_all in descending channel order
RECURSIVE FlushDownFrom(_, _, _, _)
FlushDownFrom(v, e, i, build) ==
    IF i < 0 \/ e.status # "ok" THEN e
    ELSE FlushDownFrom(v, flush_at(v, e, i, build), i - 1, build)

flush_all_descending(v, e, build) == FlushDownFrom(v, e, Len(e.states) - 1, build)

flush_all(v, e, build) == FlushFrom(v, e, 0, build)

data(v, e) == IF v = "byte" THEN byte_data(e) ELSE b64_data(e)

len(v, e) == Len(data(v, e))

is_empty(v, e) == data(v, e) = <<>>

put(v, e, symbol, build) == put_at(v, e, 0, symbol, build)

flush(v, e, build) == flush_at(v, e, 0, build)

(***************************************************************************)
(* byte_decoder.rs : ByteRansDecoderMulti<N>, ByteRansDecSymbol.           *)
(* d = [states, data, ptr, status, oob]; ptr is the byte offset of the     *)
(* read cursor in data; oob: a load outside data has happened.             *)
(***************************************************************************)
RECURSIVE ByteDecInitFrom(_, _, _)
\* for state in &mut states { rans_dec_init(state, &mut ptr); }
ByteDecInitFrom(d, i, junk) ==
    IF i > Len(d.states) THEN d
    ELSE LET m == rans_dec_init(d.data, d.ptr, junk)
         IN  ByteDecInitFrom([d EXCEPT !.states[i] = m.x, !.ptr = m.ptr,
                                       !.oob = d.oob \/ m.oob,
                                       !.status = IF d.oob \/ m.oob THEN "ub" ELSE "ok"],
                             i + 1, junk)

\* new that fills the channel states from the last channel down to the first
RECURSIVE ByteDecInitDownFrom(_, _, _)
ByteDecInitDownFrom(d, i, junk) ==
    IF i < 1 THEN d
    ELSE LET m == rans_dec_init(d.data, d.ptr, junk)
         IN  ByteDecInitDownFrom([d EXCEPT !.states[i] = m.x, !.ptr = m.ptr,
                                           !.oob = d.oob \/ m.oob,
                                           !.status = IF d.oob \/ m.oob THEN "ub" ELSE "ok"],
                                 i - 1, junk)

byte_dec_new_descending(bytes, n, junk) ==
    LET d0 == [states |-> Uninit(n, 4), data |-> bytes, ptr |-> 0,
               status |-> "ok", oob |-> FALSE]
    IN  IF bytes = <<>> THEN Panic(d0) ELSE ByteDecInitDownFrom(d0, n, junk)

byte_dec_new(bytes, n, junk) ==
    LET d0 == [states |-> Uninit(n, 4), data |-> bytes, ptr |-> 0,
               status |-> "ok", oob |-> FALSE]
    IN  IF bytes = <<>> THEN Panic(d0)      \* assert!(!data.is_empty())
        ELSE ByteDecInitFrom(d0, 1, junk)

byte_dec_is_ptr_valid(d) == 0 <= d.ptr /\ d.ptr <= Len(d.data)

ByteRansDecSymbol_new(cum_freq, freq) == [symbol |-> rans_dec_symbol_init(cum_freq, freq)]

\* cum_freq that returns the other field
ByteRansDecSymbol_cum_freq_reads_freq(sym) == sym.symbol.freq

ByteRansDecSymbol_cum_freq(sym) == sym.symbol.start

ByteRansDecSymbol_freq(sym) == sym.symbol.freq

\* get_at that reads the first channel whatever the channel asked for
byte_get_at_first(d, channel, scale_bits, build) ==
    [d |-> d, ret |-> rans_dec_get(d.states[1], scale_bits).ret]

\* the result is [d |-> the decoder after the call, ret |-> the value returned]
byte_get_at(d, channel, scale_bits, build) ==
    IF DebugAssertFails(build, channel <= Len(d.states))
    THEN [d |-> AssertFailed(d), ret |-> 0]
    ELSE IF channel >= Len(d.states) THEN [d |-> Panic(d), ret |-> 0]
    ELSE LET r == rans_dec_get(d.states[channel + 1], scale_bits)
         IN  [d |-> [d EXCEPT !.states[channel + 1] = r.x], ret |-> r.ret]

\* advance_at that leaves out the renormalization
byte_advance_at_no_renorm(d, channel, symbol, scale_bits, build, junk) ==
    IF DebugAssertFails(build, channel <= Len(d.states)) THEN AssertFailed(d)
    ELSE IF channel >= Len(d.states) THEN Panic(d)
    ELSE [d EXCEPT !.states[channel + 1] =
                rans_dec_advance_symbol_step(d.states[channel + 1], symbol.symbol, scale_bits)]

byte_advance_at(d, channel, symbol, scale_bits, build, junk) ==
    IF DebugAssertFails(build, channel <= Len(d.states)) THEN AssertFailed(d)
    ELSE IF channel >= Len(d.states) THEN Panic(d)
    ELSE LET m  == rans_dec_advance_symbol(d.states[channel + 1], d.data, d.ptr,
                                           symbol.symbol, scale_bits, junk)
             d2 == [d EXCEPT !.states[channel + 1] = m.x, !.ptr = m.ptr, !.oob = m.oob,
                             !.status = IF m.oob THEN "ub" ELSE "ok"]
         IN  check_dec_pointer(d2, byte_dec_is_ptr_valid(d2), build)

\* advance_step_at that goes on to renormalize the channel
byte_advance_step_at_renorms(d, channel, symbol, scale_bits, build) ==
    byte_advance_at(d, channel, symbol, scale_bits, build, 0)

byte_advance_step_at(d, channel, symbol, scale_bits, build) ==
    IF DebugAssertFails(build, channel <= Len(d.states)) THEN AssertFailed(d)
    ELSE IF channel >= Len(d.states) THEN Panic(d)
    ELSE [d EXCEPT !.states[channel + 1] =
                rans_dec_advance_symbol_step(d.states[channel + 1], symbol.symbol, scale_bits)]

byte_renorm_at(d, channel, build, junk) ==
    IF DebugAssertFails(build, channel <= Len(d.states)) THEN AssertFailed(d)
    ELSE IF channel >= Len(d.states) THEN Panic(d)
    ELSE LET m  == rans_dec_renorm(d.states[channel + 1], d.data, d.ptr, junk)
             d2 == [d EXCEPT !.states[channel + 1] = m.x, !.ptr = m.ptr, !.oob = m.oob,
                             !.status = IF m.oob THEN "ub" ELSE "ok"]
         IN  check_dec_pointer(d2, byte_dec_is_ptr_valid(d2), build)

(***************************************************************************)
(* b64_decoder.rs : B64RansDecoderMulti<N>, B64RansDecSymbol.  ptr is the  *)
(* byte offset of the *mut u32 read cursor.                                *)
(***************************************************************************)
RECURSIVE B64DecInitFrom(_, _, _)
B64DecInitFrom(d, i, junk) ==
    IF i > Len(d.states) THEN d
    ELSE LET m == rans_64_dec_init(d.data, d.ptr, junk)
         IN  B64DecInitFrom([d EXCEPT !.states[i] = m.x, !.ptr = m.ptr,
                                      !.oob = d.oob \/ m.oob,
                                      !.status = IF d.oob \/ m.oob THEN "ub" ELSE "ok"],
                            i + 1, junk)

\* new that fills the channel states from the last channel down to the first
RECURSIVE B64DecInitDownFrom(_, _, _)
B64DecInitDownFrom(d, i, junk) ==
    IF i < 1 THEN d
    ELSE LET m == rans_64_dec_init(d.data, d.ptr, junk)
         IN  B64DecInitDownFrom([d EXCEPT !.states[i] = m.x, !.ptr = m.ptr,
                                          !.oob = d.oob \/ m.oob,
                                          !.status = IF d.oob \/ m.oob THEN "ub" ELSE "ok"],
                                i - 1, junk)

b64_dec_new_descending(bytes, n, junk) ==
    LET d0 == [states |-> Uninit(n, 8), data |-> bytes, ptr |-> 0,
               status |-> "ok", oob |-> FALSE]
    IN  IF bytes = <<>> THEN Panic(d0) ELSE B64DecInitDownFrom(d0, n, junk)

b64_dec_new(bytes, n, junk) ==
    LET d0 == [states |-> Uninit(n, 8), data |-> bytes, ptr |-> 0,
               status |-> "ok", oob |-> FALSE]
    IN  IF bytes = <<>> THEN Panic(d0)
        ELSE B64DecInitFrom(d0, 1, junk)

b64_dec_is_ptr_valid(d) == 0 <= d.ptr /\ d.ptr <= Len(d.data)

B64RansDecSymbol_new(cum_freq, freq) == [symbol |-> rans_64_dec_symbol_init(cum_freq, freq)]

B64RansDecSymbol_cum_freq(sym) == sym.symbol.start

B64RansDecSymbol_freq(sym) == sym.symbol.freq

b64_get_at(d, channel, scale_bits, build) ==
    IF DebugAssertFails(build, channel <= Len(d.states))
    THEN [d |-> AssertFailed(d), ret |-> 0]
    ELSE IF channel >= Len(d.states) THEN [d |-> Panic(d), ret |-> 0]
    ELSE LET r == rans_64_dec_get(d.states[channel + 1], scale_bits)
         IN  [d |-> [d EXCEPT !.states[channel + 1] = r.x], ret |-> r.ret]

\* advance_at that leaves out the renormalization
b64_advance_at_no_renorm(d, channel, symbol, scale_bits, build, junk) ==
    IF DebugAssertFails(build, channel <= Len(d.states)) THEN AssertFailed(d)
    ELSE IF channel >= Len(d.states) THEN Panic(d)
    ELSE [d EXCEPT !.states[channel + 1] =
                rans_64_dec_advance_symbol_step(d.states[channel + 1], symbol.symbol,
                                                scale_bits)]

b64_advance_at(d, channel, symbol, scale_bits, build, junk) ==
    IF DebugAssertFails(build, channel <= Len(d.states)) THEN AssertFailed(d)
    ELSE IF channel >= Len(d.states) THEN Panic(d)
    ELSE LET m  == rans_64_dec_advance_symbol(d.states[channel + 1], d.data, d.ptr,
                                              symbol.symbol, scale_bits, junk)
             d2 == [d EXCEPT !.states[channel + 1] = m.x, !.ptr = m.ptr, !.oob = m.oob,
                             !.status = IF m.oob THEN "ub" ELSE "ok"]
         IN  check_dec_pointer(d2, b64_dec_is_ptr_valid(d2), build)

b64_advance_step_at(d, channel, symbol, scale_bits, build) ==
    IF DebugAssertFails(build, channel <= Len(d.states)) THEN AssertFailed(d)
    ELSE IF channel >= Len(d.states) THEN Panic(d)
    ELSE [d EXCEPT !.states[channel + 1] =
                rans_64_dec_advance_symbol_step(d.states[channel + 1], symbol.symbol,
                                                scale_bits)]

b64_renorm_at(d, channel, build, junk) ==
    IF DebugAssertFails(build, channel <= Len(d.states)) THEN AssertFailed(d)
    ELSE IF channel >= Len(d.states) THEN Panic(d)
    ELSE LET m  == rans_64_dec_renorm(d.states[channel + 1], d.data, d.ptr, junk)
             d2 == [d EXCEPT !.states[channel + 1] = m.x, !.ptr = m.ptr, !.oob = m.oob,
                             !.status = IF m.oob THEN "ub" ELSE "ok"]
         IN  check_dec_pointer(d2, b64_dec_is_ptr_valid(d2), build)

(***************************************************************************)
(* decoder.rs : the traits RansDecoderMulti<N>, RansDecoder, RansDecSymbol.*)
(***************************************************************************)
DecoderNew(v, bytes, n, junk) ==
    IF v = "byte" THEN byte_dec_new(bytes, n, junk) ELSE b64_dec_new(bytes, n, junk)

DecSymbolNew(v, cum_freq, freq) ==
    IF v = "byte" THEN ByteRansDecSymbol_new(cum_freq, freq)
    ELSE B64RansDecSymbol_new(cum_freq, freq)

cum_freq(v, sym) ==
    IF v = "byte" THEN ByteRansDecSymbol_cum_freq(sym) ELSE B64RansDecSymbol_cum_freq(sym)

freq(v, sym) ==
    IF v = "byte" THEN ByteRansDecSymbol_freq(sym) ELSE B64RansDecSymbol_freq(sym)

get_at(v, d, channel, scale_bits, build) ==
    IF v = "byte" THEN byte_get_at(d, channel, scale_bits, build)
    ELSE b64_get_at(d, channel, scale_bits, build)

advance_at(v, d, channel, symbol, scale_bits, build, junk) ==
    IF v = "byte" THEN byte_advance_at(d, channel, symbol, scale_bits, build, junk)
    ELSE b64_advance_at(d, channel, symbol, scale_bits, build, junk)

advance_step_at(v, d, channel, symbol, scale_bits, build) ==
    IF v = "byte" THEN byte_advance_step_at(d, channel, symbol, scale_bits, build)
    ELSE b64_advance_step_at(d, channel, symbol, scale_bits, build)

renorm_at(v, d, channel, build, junk) ==
    IF v = "byte" THEN byte_renorm_at(d, channel, build, junk)
    ELSE b64_renorm_at(d, channel, build, junk)

\* for i in 0..N { self.renorm_at(i); }  (a panic ends the loop)
RECURSIVE RenormFrom(_, _, _, _, _)
RenormFrom(v, d, i, build, junk) ==
    IF i >= Len(d.states) \/ d.status # "ok" THEN d
    ELSE RenormFrom(v, renorm_at(v, d, i, build, junk), i + 1, build, junk)

\* renorm_all that takes the channels from the last down to the first
RECURSIVE RenormDownFrom(_, _, _, _, _)
RenormDownFrom(v, d, i, build, junk) ==
    IF i < 0 \/ d.status # "ok" THEN d
    ELSE RenormDownFrom(v, renorm_at(v, d, i, build, junk), i - 1, build, junk)

renorm_all_descending(v, d, build, junk) ==
    RenormDownFrom(v, d, Len(d.states) - 1, build, junk)

renorm_all(v, d, build, junk) == RenormFrom(v, d, 0, build, junk)

\* get that masks one bit fewer than asked for
get_masks_short(v, d, scale_bits, build) == get_at(v, d, 0, scale_bits - 1, build)

get(v, d, scale_bits, build) == get_at(v, d, 0, scale_bits, build)

\* advance that steps channel 0 and leaves out the renormalization
advance_steps_only(v, d, symbol, scale_bits, build, junk) ==
    advance_step_at(v, d, 0, symbol, scale_bits, build)

advance(v, d, symbol, scale_bits, build, junk) ==
    advance_at(v, d, 0, symbol, scale_bits, build, junk)

\* tests::get_symbol: the first symbol of the table whose interval ends above cum_freq
\* (0 when there is none: unreachable!())
RECURSIVE GetSymbolFrom(_, _, _, _)
GetSymbolFrom(v, symbols, slot, i) ==
    IF i > Len(symbols) THEN 0
    ELSE IF slot < cum_freq(v, symbols[i]) + freq(v, symbols[i]) THEN i
    ELSE GetSymbolFrom(v, symbols, slot, i + 1)

get_symbol(v, symbols, slot) == GetSymbolFrom(v, symbols, slot, 1)

(***************************************************************************)
(* The caller.  A frequency table with denominator 1 << scale_bits, as     *)
(* (cum_freq, freq) pairs: at scale_bits 2 the two symbols of the crate's  *)
(* tests (test_encode_two_symbols), otherwise the two ends of the          *)
(* cumulative range with frequency 1 and the rest between them (above 22   *)
(* bits, where the frequency between them exceeds the multipliers of the   *)
(* arithmetic here, the two ends alone: an encoder is free to put any      *)
(* subset of a table).  Symbols are numbered from 1.  The caller creates   *)
(* the symbol descriptors once and passes them by reference.               *)
(***************************************************************************)
FreqTable(scale_bits) ==
    IF scale_bits = 1 THEN << <<0, 1>>, <<1, 1>> >>
    ELSE IF scale_bits = 2 THEN << <<0, 2>>, <<2, 2>> >>
    ELSE IF scale_bits > 22 THEN << <<0, 1>>, <<Pow2(scale_bits) - 1, 1>> >>
    ELSE << <<0, 1>>, <<1, Pow2(scale_bits) - 2>>, <<Pow2(scale_bits) - 1, 1>> >>

SymIds(scale_bits) == 1..Len(FreqTable(scale_bits))

EncSyms(v, scale_bits) ==
    [i \in SymIds(scale_bits) |->
        EncSymbolNew(v, FreqTable(scale_bits)[i][1], FreqTable(scale_bits)[i][2], scale_bits)]

DecSyms(v, scale_bits) ==
    [i \in SymIds(scale_bits) |->
        DecSymbolNew(v, FreqTable(scale_bits)[i][1], FreqTable(scale_bits)[i][2])]

\* the slot lies in the interval [cum_freq, cum_freq + freq) of symbol i
InInterval(slot, scale_bits, i) ==
    /\ FreqTable(scale_bits)[i][1] <= slot
    /\ slot < FreqTable(scale_bits)[i][1] + FreqTable(scale_bits)[i][2]

(***************************************************************************)
(* Bounds of the exploration.                                              *)
(***************************************************************************)
\* calls made on an encoder that is driven freely (put, flush, reset)
MaxEncOps == 4
\* symbols put before the flush of a stream that is then decoded
MaxPuts == 4
\* calls that change a decoder that is driven freely
MaxDecOps == 2
\* bytes an out-of-bounds load can yield
JunkBytes == {0, 255}
\* the capacity of the encoder: MaxEncOps calls of flush_all on two word-aligned
\* channels fill it exactly
AmpleLen == 64
\* a capacity that a few flushes exceed
TightLen == 9
\* the capacity one flushed byte-aligned state fills
FitLen == 4
\* writes made through one MutCow
MaxWrites == 2
\* the largest frequency and the largest number of symbols of a table under repair
MaxFreq == 3
MaxSymbols == 3

(***************************************************************************)
(* State.                                                                  *)
(***************************************************************************)
VARIABLES
    variant,    \* "byte" or "b64": the implementing types in use
    nch,        \* N, the number of channels
    build,      \* "debug" or "release"
    scale,      \* scale_bits of the caller's frequency table
    max_len,    \* the capacity the encoder was created with
    esyms,      \* the caller's encoder symbols
    dsyms,      \* the caller's decoder symbols
    budget,     \* [enc, dec]: how many calls the caller makes
    enc,        \* the encoder
    ref,        \* an encoder created afresh at the last reset, given the same calls
    dec,        \* the decoder (status "none" until it is created)
    phase,      \* "enc": encoding; "dec": a decoder was created over enc's data()
    log,        \* the put and flush calls on enc since the last reset
    nops,       \* number of calls made on enc
    dops,       \* number of state-changing calls made on dec
    pend,       \* the puts of log not yet undone by the decoder
    stepd,      \* stepd[c + 1]: decoder channel c is advanced but not renormalized
    schedM,     \* the decoder calls so far undo the puts in reverse order, decoder
                \* channel c standing for encoder channel N - 1 - c
    schedI,     \* the same, decoder channel c standing for encoder channel c
    made,       \* the value the caller constructed last (a symbol outside its table,
                \* or a MutCow beside the buffer it was built from):
                \* [kind, cum_freq, freq, scale_bits, sym], kind "none" before the first
    lastOp      \* the last call: [op, ch, sym, ret]

vars == <<variant, nch, build, scale, max_len, esyms, dsyms, budget, enc, ref, dec, phase,
          log, nops, dops, pend, stepd, schedM, schedI, made, lastOp>>

config == <<variant, nch, build, scale, max_len, esyms, dsyms, budget>>

NoDecoder == [states |-> <<>>, data |-> <<>>, ptr |-> 0, status |-> "none", oob |-> FALSE]

Op(name, ch, sym, ret) == [op |-> name, ch |-> ch, sym |-> sym, ret |-> ret]

Channels == 0..(nch - 1)

NoSymbol == [kind |-> "none", cum_freq |-> 0, freq |-> 0, scale_bits |-> 0, sym |-> <<>>]

InitWith(vs, ns, bs, ss, ls, eb, db) ==
    /\ variant \in vs
    /\ nch \in ns
    /\ build \in bs
    /\ scale \in ss
    /\ max_len \in ls
    /\ esyms = EncSyms(variant, scale)
    /\ dsyms = DecSyms(variant, scale)
    /\ budget = [enc |-> eb, dec |-> db]
    /\ enc = EncoderNew(variant, max_len, nch)
    /\ ref = EncoderNew(variant, max_len, nch)
    /\ dec = NoDecoder
    /\ phase = "enc"
    /\ log = <<>>
    /\ nops = 0
    /\ dops = 0
    /\ pend = <<>>
    /\ stepd = [c \in 1..nch |-> FALSE]
    /\ schedM = FALSE
    /\ schedI = FALSE
    /\ made = NoSymbol
    /\ lastOp = Op("new", 0, 0, 0)

(***************************************************************************)
(* Encoder calls.  ref receives every call enc receives.                   *)
(***************************************************************************)
EncReady == phase = "enc" /\ enc.status = "ok" /\ nops < budget.enc

EncFrame == UNCHANGED <<config, dec, phase, dops, pend, stepd, schedM, schedI, made>>

PutAt(c, i) ==
    /\ EncReady
    /\ enc' = put_at(variant, enc, c, esyms[i], build)
    /\ ref' = IF ref = enc THEN enc' ELSE put_at(variant, ref, c, esyms[i], build)
    /\ log' = Append(log, Op("put", c, i, 0))
    /\ nops' = nops + 1
    /\ lastOp' = Op("put_at", c, i, 0)
    /\ EncFrame

Put(i) ==
    /\ EncReady
    /\ nch = 1
    /\ enc' = put(variant, enc, esyms[i], build)
    /\ ref' = IF ref = enc THEN enc' ELSE put(variant, ref, esyms[i], build)
    /\ log' = Append(log, Op("put", 0, i, 0))
    /\ nops' = nops + 1
    /\ lastOp' = Op("put", 0, i, 0)
    /\ EncFrame

FlushAt(c) ==
    /\ EncReady
    /\ enc' = flush_at(variant, enc, c, build)
    /\ ref' = IF ref = enc THEN enc' ELSE flush_at(variant, ref, c, build)
    /\ log' = Append(log, Op("flush", c, 0, 0))
    /\ nops' = nops + 1
    /\ lastOp' = Op("flush_at", c, 0, 0)
    /\ EncFrame

Flush ==
    /\ EncReady
    /\ nch = 1
    /\ enc' = flush(variant, enc, build)
    /\ ref' = IF ref = enc THEN enc' ELSE flush(variant, ref, build)
    /\ log' = Append(log, Op("flush", 0, 0, 0))
    /\ nops' = nops + 1
    /\ lastOp' = Op("flush", 0, 0, 0)
    /\ EncFrame

FlushAll ==
    /\ EncReady
    /\ enc' = flush_all(variant, enc, build)
    /\ ref' = IF ref = enc THEN enc' ELSE flush_all(variant, ref, build)
    /\ log' = log \o [c \in 1..nch |-> Op("flush", c - 1, 0, 0)]
    /\ nops' = nops + 1
    /\ lastOp' = Op("flush_all", 0, 0, 0)
    /\ EncFrame

Reset ==
    /\ EncReady
    /\ enc' = reset(variant, enc)
    /\ ref' = EncoderNew(variant, max_len, nch)
    /\ log' = <<>>
    /\ nops' = nops + 1
    /\ lastOp' = Op("reset", 0, 0, 0)
    /\ EncFrame

\* a call with a channel that is no index of the N states: channel N or N + 1
EncOffChannel(name, c) ==
    /\ EncReady
    /\ c >= nch
    /\ name \in {"put_at", "flush_at"}
    /\ enc' = IF name = "put_at" THEN put_at(variant, enc, c, esyms[1], build)
              ELSE flush_at(variant, enc, c, build)
    /\ ref' = IF name = "put_at" THEN put_at(variant, ref, c, esyms[1], build)
              ELSE flush_at(variant, ref, c, build)
    /\ nops' = nops + 1
    /\ lastOp' = Op(name, c, 0, 0)
    /\ UNCHANGED log
    /\ EncFrame

(***************************************************************************)
(* Symbols constructed from arbitrary arguments.                           *)
(***************************************************************************)
SymFrame ==
    UNCHANGED <<config, enc, ref, dec, phase, log, nops, dops, pend, stepd, schedM, schedI>>

NewEncSymbol(c, f) ==
    /\ made' = [kind |-> "enc", cum_freq |-> c, freq |-> f, scale_bits |-> scale,
                sym |-> EncSymbolNew(variant, c, f, scale)]
    /\ lastOp' = Op("enc_symbol_new", 0, 0, 0)
    /\ SymFrame

NewDecSymbol(c, f) ==
    /\ made' = [kind |-> "dec", cum_freq |-> c, freq |-> f, scale_bits |-> scale,
                sym |-> DecSymbolNew(variant, c, f)]
    /\ lastOp' = Op("dec_symbol_new", 0, 0, 0)
    /\ SymFrame

\* put_at with the symbol constructed last
PutMade(c) ==
    /\ EncReady
    /\ made.kind = "enc"
    /\ enc' = put_at(variant, enc, c, made.sym, build)
    /\ ref' = put_at(variant, ref, c, made.sym, build)
    /\ log' = Append(log, Op("put", c, 0, 0))
    /\ nops' = nops + 1
    /\ lastOp' = Op("put_at", c, 0, 0)
    /\ EncFrame

(***************************************************************************)
(* The decoding schedule (bookkeeping of the caller, no state of the code).*)
(***************************************************************************)
\* l holds puts only
OnlyPuts(l) == \A k \in 1..Len(l) : l[k].op = "put"

\* l is a run of puts followed by the flush of every channel in ascending order
WellFormed(l, n) ==
    /\ Len(l) >= n
    /\ OnlyPuts(SubSeq(l, 1, Len(l) - n))
    /\ \A c \in 1..n : l[Len(l) - n + c] = Op("flush", c - 1, 0, 0)

\* the position in p of the latest put on encoder channel c (0: none)
LastOn(p, c) ==
    LET S == {k \in 1..Len(p) : p[k].ch = c}
    IN  IF S = {} THEN 0 ELSE CHOOSE k \in S : \A j \in S : j <= k

Front(p) == SubSeq(p, 1, Len(p) - 1)

\* tr = [pend, stepd, m, i]
Track == [pend |-> pend, stepd |-> stepd, m |-> schedM, i |-> schedI]

TrStep(tr, c) ==
    [tr EXCEPT !.m = tr.m /\ ~tr.stepd[c + 1] /\ LastOn(tr.pend, nch - 1 - c) # 0,
               !.i = tr.i /\ ~tr.stepd[c + 1] /\ LastOn(tr.pend, c) # 0,
               !.stepd[c + 1] = TRUE]

TrRenorm(tr, c) ==
    IF ~tr.stepd[c + 1] THEN tr
    ELSE [pend  |-> IF tr.pend = <<>> THEN <<>> ELSE Front(tr.pend),
          stepd |-> [tr.stepd EXCEPT ![c + 1] = FALSE],
          m     |-> tr.m /\ tr.pend # <<>> /\ tr.pend[Len(tr.pend)].ch = nch - 1 - c,
          i     |-> tr.i /\ tr.pend # <<>> /\ tr.pend[Len(tr.pend)].ch = c]

RECURSIVE TrRenormFrom(_, _)
TrRenormFrom(tr, c) == IF c >= nch THEN tr ELSE TrRenormFrom(TrRenorm(tr, c), c + 1)

SetTrack(tr) ==
    /\ pend' = tr.pend
    /\ stepd' = tr.stepd
    /\ schedM' = tr.m
    /\ schedI' = tr.i

\* the symbol the schedule expects next on decoder channel c (0: none), when decoder
\* channel c stands for encoder channel ec
Expected(on, c, ec) ==
    IF on /\ ~stepd[c + 1] /\ LastOn(pend, ec) # 0 THEN pend[LastOn(pend, ec)].sym ELSE 0

ExpectedM(c) == Expected(schedM, c, nch - 1 - c)

ExpectedI(c) == Expected(schedI, c, c)

(***************************************************************************)
(* Decoder calls.  The decoder is created over a copy of the encoder's     *)
(* data(); the caller advances by the symbol it looked up from the slot    *)
(* get_at returned.                                                        *)
(***************************************************************************)
DecNew ==
    /\ phase = "enc"
    /\ enc.status = "ok"
    /\ \E junk \in JunkBytes :
          LET d == DecoderNew(variant, data(variant, enc), nch, junk)
          IN  (d.oob \/ junk = 0) /\ dec' = d
    /\ phase' = "dec"
    /\ pend' = IF WellFormed(log, nch) THEN SubSeq(log, 1, Len(log) - nch) ELSE <<>>
    /\ stepd' = [c \in 1..nch |-> FALSE]
    /\ schedM' = WellFormed(log, nch)
    /\ schedI' = WellFormed(log, nch)
    /\ lastOp' = Op("dec_new", 0, 0, 0)
    /\ UNCHANGED <<config, enc, ref, log, nops, dops, made>>

DecReady == phase = "dec" /\ dec.status = "ok"

DecFrame == UNCHANGED <<config, enc, ref, phase, log, nops, made>>

\* the symbol the caller looks up for the slot now held by channel c
Looked(c) == get_symbol(variant, dsyms, get_at(variant, dec, c, scale, build).ret)

GetAt(c) ==
    /\ DecReady
    /\ LET r == get_at(variant, dec, c, scale, build)
       IN  dec' = r.d /\ lastOp' = Op("get_at", c, 0, r.ret)
    /\ UNCHANGED <<dops, pend, stepd, schedM, schedI>>
    /\ DecFrame

Get ==
    /\ DecReady
    /\ nch = 1
    /\ LET r == get(variant, dec, scale, build)
       IN  dec' = r.d /\ lastOp' = Op("get", 0, 0, r.ret)
    /\ UNCHANGED <<dops, pend, stepd, schedM, schedI>>
    /\ DecFrame

AdvanceAt(c) ==
    /\ DecReady
    /\ dops < budget.dec
    /\ Looked(c) # 0
    /\ \E junk \in JunkBytes :
          LET d == advance_at(variant, dec, c, dsyms[Looked(c)], scale, build, junk)
          IN  (d.oob \/ junk = 0) /\ dec' = d
    /\ SetTrack(TrRenorm(TrStep(Track, c), c))
    /\ dops' = dops + 1
    /\ lastOp' = Op("advance_at", c, Looked(c), 0)
    /\ DecFrame

Advance ==
    /\ DecReady
    /\ nch = 1
    /\ dops < budget.dec
    /\ Looked(0) # 0
    /\ \E junk \in JunkBytes :
          LET d == advance(variant, dec, dsyms[Looked(0)], scale, build, junk)
          IN  (d.oob \/ junk = 0) /\ dec' = d
    /\ SetTrack(TrRenorm(TrStep(Track, 0), 0))
    /\ dops' = dops + 1
    /\ lastOp' = Op("advance", 0, Looked(0), 0)
    /\ DecFrame

AdvanceStepAt(c) ==
    /\ DecReady
    /\ dops < budget.dec
    /\ Looked(c) # 0
    /\ dec' = advance_step_at(variant, dec, c, dsyms[Looked(c)], scale, build)
    /\ SetTrack(TrStep(Track, c))
    /\ dops' = dops + 1
    /\ lastOp' = Op("advance_step_at", c, Looked(c), 0)
    /\ DecFrame

RenormAt(c) ==
    /\ DecReady
    /\ dops < budget.dec
    /\ \E junk \in JunkBytes :
          LET d == renorm_at(variant, dec, c, build, junk)
          IN  (d.oob \/ junk = 0) /\ dec' = d
    /\ SetTrack(TrRenorm(Track, c))
    /\ dops' = dops + 1
    /\ lastOp' = Op("renorm_at", c, 0, 0)
    /\ DecFrame

RenormAll ==
    /\ DecReady
    /\ dops < budget.dec
    /\ \E junk \in JunkBytes :
          LET d == renorm_all(variant, dec, build, junk)
          IN  (d.oob \/ junk = 0) /\ dec' = d
    /\ SetTrack(TrRenormFrom(Track, 0))
    /\ dops' = dops + 1
    /\ lastOp' = Op("renorm_all", 0, 0, 0)
    /\ DecFrame

\* a call with a channel that is no index of the N states: channel N or N + 1
DecOffChannel(name, c) ==
    /\ DecReady
    /\ c >= nch
    /\ name \in {"get_at", "advance_at", "advance_step_at", "renorm_at"}
    /\ dec' = CASE name = "get_at" -> get_at(variant, dec, c, scale, build).d
                [] name = "advance_at" -> advance_at(variant, dec, c, dsyms[1], scale, build, 0)
                [] name = "advance_step_at" ->
                        advance_step_at(variant, dec, c, dsyms[1], scale, build)
                [] name = "renorm_at" -> renorm_at(variant, dec, c, build, 0)
    /\ lastOp' = Op(name, c, 0, 0)
    /\ UNCHANGED <<dops, pend, stepd, schedM, schedI>>
    /\ DecFrame

(***************************************************************************)
(* A single stream whose symbols come from two tables of different         *)
(* scale_bits.  Symbol k <= Len(esyms) is symbol k of the table of `scale`, *)
(* symbol Len(esyms) + i is symbol i of the table of the other scale.  The  *)
(* caller decodes each symbol with the scale_bits it was encoded with.      *)
(***************************************************************************)
\* the largest scale_bits of the variant
MaxScale(v) == IF v = "byte" THEN 12 ELSE 16

OtherScale == MaxScale(variant) + 1 - scale

MixIds == 1..(Len(esyms) + Len(FreqTable(OtherScale)))

MixScale(k) == IF k <= Len(esyms) THEN scale ELSE OtherScale

MixId(k) == IF k <= Len(esyms) THEN k ELSE k - Len(esyms)

MixEncSym(k) ==
    IF k <= Len(esyms) THEN esyms[k] ELSE EncSyms(variant, OtherScale)[k - Len(esyms)]

MixDecSyms(k) == IF k <= Len(esyms) THEN dsyms ELSE DecSyms(variant, OtherScale)

PutMix(k) ==
    /\ EncReady
    /\ nch = 1
    /\ enc' = put(variant, enc, MixEncSym(k), build)
    /\ ref' = put(variant, ref, MixEncSym(k), build)
    /\ log' = Append(log, Op("put", 0, k, 0))
    /\ nops' = nops + 1
    /\ lastOp' = Op("put", 0, k, 0)
    /\ EncFrame

\* get with the scale_bits of the symbol the schedule has next
GetMix ==
    /\ DecReady
    /\ nch = 1
    /\ pend # <<>>
    /\ LET r == get(variant, dec, MixScale(pend[Len(pend)].sym), build)
       IN  dec' = r.d /\ lastOp' = Op("get", 0, 0, r.ret)
    /\ UNCHANGED <<dops, pend, stepd, schedM, schedI>>
    /\ DecFrame

\* advance by the symbol looked up, in the table of that scale_bits, from the slot
AdvanceMix ==
    /\ DecReady
    /\ nch = 1
    /\ pend # <<>>
    /\ dops < budget.dec
    /\ LET k     == pend[Len(pend)].sym
           slot  == get(variant, dec, MixScale(k), build).ret
           found == get_symbol(variant, MixDecSyms(k), slot)
       IN  /\ found # 0
           /\ \E junk \in JunkBytes :
                 LET d == advance(variant, dec, MixDecSyms(k)[found], MixScale(k), build,
                                  junk)
                 IN  (d.oob \/ junk = 0) /\ dec' = d
           /\ lastOp' = Op("advance", 0, found, 0)
    /\ SetTrack(TrRenorm(TrStep(Track, 0), 0))
    /\ dops' = dops + 1
    /\ DecFrame

(***************************************************************************)
(* Specifications.                                                         *)
(***************************************************************************)
\* Every call, in any order: the coders driven freely.
Init == InitWith(Variants, {1, 2}, Builds, {12}, {TightLen, AmpleLen}, MaxEncOps - 2, MaxDecOps)

Next ==
    \/ \E c \in Channels : \E i \in SymIds(scale) : PutAt(c, i)
    \/ \E i \in SymIds(scale) : Put(i)
    \/ \E c \in Channels : FlushAt(c)
    \/ Flush
    \/ FlushAll
    \/ Reset
    \/ DecNew
    \/ \E c \in Channels : GetAt(c)
    \/ Get
    \/ \E c \in Channels : AdvanceAt(c)
    \/ Advance
    \/ \E c \in Channels : AdvanceStepAt(c)
    \/ \E c \in Channels : RenormAt(c)
    \/ RenormAll
    \/ \E c \in nch..(nch + 1) : \E name \in {"put_at", "flush_at"} : EncOffChannel(name, c)
    \/ \E c \in nch..(nch + 1) :
          \E name \in {"get_at", "advance_at", "advance_step_at", "renorm_at"} :
              DecOffChannel(name, c)

Spec == Init /\ [][Next]_vars

\* The encoder alone, driven freely.
InitEnc == InitWith(Variants, {1, 2}, {"debug"}, {2, 12}, {AmpleLen}, MaxEncOps, 0)

NextEnc ==
    \/ \E c \in Channels : \E i \in SymIds(scale) : PutAt(c, i)
    \/ \E c \in Channels : FlushAt(c)
    \/ FlushAll
    \/ Reset

SpecEnc == InitEnc /\ [][NextEnc]_vars

\* One stream through the single-stream interface: up to MaxPuts symbols are put,
\* the stream is flushed, a decoder over its bytes undoes the puts.
NextOne ==
    \/ \E i \in SymIds(scale) : OnlyPuts(log) /\ Len(log) < MaxPuts /\ Put(i)
    \/ OnlyPuts(log) /\ Flush
    \/ WellFormed(log, nch) /\ DecNew
    \/ Get
    \/ Advance /\ schedM'

InitByte1 == InitWith({"byte"}, {1}, Builds, 1..12, {AmpleLen}, MaxPuts + 1, MaxPuts)

SpecByte1 == InitByte1 /\ [][NextOne]_vars

InitWord1 == InitWith({"b64"}, {1}, Builds, 1..16, {AmpleLen}, MaxPuts + 1, MaxPuts)

SpecWord1 == InitWord1 /\ [][NextOne]_vars

\* Two interleaved channels: up to MaxPuts symbols are put on the channels in turn
\* (channel 0 first), all channels are flushed, a decoder over the bytes undoes the
\* puts in reverse order, taking decoder channel c for encoder channel N - 1 - c.
InitDuo == InitWith(Variants, {2}, {"debug"}, {12}, {AmpleLen}, MaxPuts + 1, 2 * MaxPuts)

NextDuo ==
    \/ \E c \in Channels : \E i \in SymIds(scale) :
          OnlyPuts(log) /\ Len(log) < MaxPuts /\ c = Len(log) % nch /\ PutAt(c, i)
    \/ OnlyPuts(log) /\ FlushAll
    \/ WellFormed(log, nch) /\ DecNew
    \/ \E c \in Channels : GetAt(c)
    \/ \E c \in Channels : AdvanceAt(c) /\ schedM'
    \/ \E c \in Channels : AdvanceStepAt(c) /\ schedM'
    \/ \E c \in Channels : stepd[c + 1] /\ RenormAt(c) /\ schedM'
    \/ (\E c \in Channels : stepd[c + 1]) /\ RenormAll /\ schedM'

SpecDuo == InitDuo /\ [][NextDuo]_vars

\* Puts alone, at every scale_bits the variants take: 1..12 byte-aligned, 1..16
\* word-aligned.
InitPuts ==
    \/ InitWith({"byte"}, {1, 2}, {"debug"}, 1..12, {AmpleLen}, MaxEncOps, 0)
    \/ InitWith({"b64"}, {1, 2}, {"debug"}, 1..16, {AmpleLen}, MaxEncOps, 0)

NextPuts ==
    \/ \E c \in Channels : \E i \in SymIds(scale) : PutAt(c, i)
    \/ Reset

SpecPuts == InitPuts /\ [][NextPuts]_vars

\* Symbols constructed from arguments in and out of the table's range, and put.
EncSymArgs == {0, 1, Pow2(scale) - 1, Pow2(scale), Pow2(scale) + 1}

DecSymArgs == {0, 1, 4095, 65535, 65536, 65537, 2147418112, 2147483647}

InitSym == InitWith(Variants, {1}, Builds, {2, 12}, {AmpleLen}, 1, 0)

NextSym ==
    \/ \E c \in EncSymArgs : \E f \in EncSymArgs : NewEncSymbol(c, f)
    \/ \E c \in DecSymArgs : \E f \in DecSymArgs : NewDecSymbol(c, f)
    \/ PutMade(0)

SpecSym == InitSym /\ [][NextSym]_vars

\* Two channels decoded in batches: advance_step_at on the channels, then
\* renorm_all, next to advance_at.
InitBatch == InitWith(Variants, {2}, Builds, {12}, {AmpleLen}, MaxEncOps - 1, MaxDecOps - 1)

NextBatch ==
    \/ \E c \in Channels : \E i \in SymIds(scale) : PutAt(c, i)
    \/ FlushAll
    \/ DecNew
    \/ \E c \in Channels : AdvanceAt(c)
    \/ \E c \in Channels : AdvanceStepAt(c)
    \/ RenormAll

SpecBatch == InitBatch /\ [][NextBatch]_vars

\* A single stream of up to MaxPuts - 1 symbols of two scales, flushed and decoded.
InitMix ==
    \/ InitWith({"byte"}, {1}, {"debug"}, 1..12, {AmpleLen}, MaxPuts, MaxPuts - 1)
    \/ InitWith({"b64"}, {1}, {"debug"}, 1..16, {AmpleLen}, MaxPuts, MaxPuts - 1)

NextMix ==
    \/ \E k \in MixIds : OnlyPuts(log) /\ Len(log) < MaxPuts - 1 /\ PutMix(k)
    \/ OnlyPuts(log) /\ Flush
    \/ WellFormed(log, nch) /\ DecNew
    \/ GetMix
    \/ AdvanceMix

SpecMix == InitMix /\ [][NextMix]_vars

\* Puts on one stream at every scale_bits the library accepts and the arithmetic
\* here takes: 1..16 byte-aligned, 1..30 word-aligned.
InitWide ==
    \/ InitWith({"byte"}, {1}, {"debug"}, 1..16, {AmpleLen}, MaxEncOps, 0)
    \/ InitWith({"b64"}, {1}, {"debug"}, 1..30, {AmpleLen}, MaxEncOps, 0)

SpecWide == InitWide /\ [][NextPuts]_vars

\* A decoder over bytes that no encoder wrote: the caller hands new() any
\* non-empty byte string (the example of the documentation is new(vec![0])).
\* Strings of zero bytes and of the top byte of L, one to two units longer than
\* the state.
RawWord == {<<0, 0, 0, 0>>, <<0, 0, 0, 128>>}

RawData(v) ==
    IF v = "byte"
    THEN {w \o t : w \in RawWord, t \in {<<>>, <<0>>, <<128>>, <<0, 0>>, <<0, 128>>, <<128, 0>>}}
    ELSE {w \o x \o t : w \in RawWord, x \in RawWord, t \in {<<>>} \cup RawWord}

DecNewOver(bytes) ==
    /\ phase = "enc"
    /\ \E junk \in JunkBytes :
          LET d == DecoderNew(variant, bytes, nch, junk)
          IN  (d.oob \/ junk = 0) /\ dec' = d
    /\ phase' = "dec"
    /\ pend' = <<>>
    /\ stepd' = [c \in 1..nch |-> FALSE]
    /\ schedM' = FALSE
    /\ schedI' = FALSE
    /\ lastOp' = Op("dec_new", 0, 0, 0)
    /\ UNCHANGED <<config, enc, ref, log, nops, dops, made>>

InitRaw == InitWith(Variants, {1}, Builds, {12}, {AmpleLen}, 0, MaxDecOps + 1)

NextRaw ==
    \/ \E bytes \in RawData(variant) : DecNewOver(bytes)
    \/ \E c \in Channels : GetAt(c)
    \/ \E c \in Channels : AdvanceStepAt(c)
    \/ \E c \in Channels : RenormAt(c)

SpecRaw == InitRaw /\ [][NextRaw]_vars

\* Encoders of small capacity, driven until they are full and beyond.
InitFit ==
    InitWith(Variants, {1, 2}, Builds, {12}, {FitLen, 2 * FitLen, TightLen}, MaxEncOps, 0)

SpecFit == InitFit /\ [][NextEnc]_vars

(***************************************************************************)
(* mut_cow.rs : MutCow<[u8]>, either a mutable borrow of a buffer of the   *)
(* caller or an owned Vec.  A Borrowed value holds a reference and no      *)
(* bytes: its target is the one buffer of the caller kept beside it.       *)
(***************************************************************************)
\* from that copies the bytes of the slice into a Vec of its own
MutCow_from_slice_copies(reference) == [tag |-> "Owned", owned |-> reference]

\* impl From<&mut [u8]>
MutCow_from_slice(reference) == [tag |-> "Borrowed", owned |-> <<>>]

\* impl From<&mut [u8; N]>
MutCow_from_array_ref(reference) == [tag |-> "Borrowed", owned |-> <<>>]

\* impl From<[u8; N]>: Vec::from(owned) copies the array
MutCow_from_array(owned) == [tag |-> "Owned", owned |-> owned]

\* impl From<Vec<u8>>: the Vec is moved in
MutCow_from_vec(owned) == [tag |-> "Owned", owned |-> owned]

\* Deref: the bytes seen through the MutCow, target being the borrowed buffer
MutCow_deref(c, target) == IF c.tag = "Borrowed" THEN target ELSE c.owned

\* DerefMut followed by the store mut_cow[i] = v: [c, target] afterwards
MutCow_deref_mut_set(c, target, i, v) ==
    IF c.tag = "Borrowed" THEN [c |-> c, target |-> [target EXCEPT ![i] = v]]
    ELSE [c |-> [c EXCEPT !.owned[i] = v], target |-> target]

\* the byte strings the caller holds, and the values it stores
CowData == {<<1, 2, 3, 4>>, <<0>>, <<7, 7>>}

CowValues == {0, 5}

\* the caller builds a MutCow from its buffer: by mutable borrow of the slice or
\* of the array, from the array by value (the caller keeps its array), or from
\* the Vec (which the caller gives away)
CowFrom(how, bytes) ==
    /\ made' = [kind   |-> "cow", how |-> how, given |-> bytes, writes |-> <<>>,
                caller |-> IF how = "vec" THEN <<>> ELSE bytes,
                cow    |-> CASE how = "slice"     -> MutCow_from_slice(bytes)
                             [] how = "array_ref" -> MutCow_from_array_ref(bytes)
                             [] how = "array"     -> MutCow_from_array(bytes)
                             [] how = "vec"       -> MutCow_from_vec(bytes)]
    /\ lastOp' = Op("mut_cow_from", 0, 0, 0)
    /\ SymFrame

\* mut_cow[i] = v
CowWrite(i, v) ==
    /\ made.kind = "cow"
    /\ Len(made.writes) < MaxWrites
    /\ i \in 1..Len(made.given)
    /\ LET r == MutCow_deref_mut_set(made.cow, made.caller, i, v)
       IN  made' = [made EXCEPT !.cow = r.c, !.caller = r.target,
                                !.writes = Append(made.writes, <<i, v>>)]
    /\ lastOp' = Op("mut_cow_set", 0, i, v)
    /\ SymFrame

InitCow == InitWith({"byte"}, {1}, {"debug"}, {12}, {AmpleLen}, 0, 0)

NextCow ==
    \/ \E how \in {"slice", "array_ref", "array", "vec"} : \E bytes \in CowData :
          CowFrom(how, bytes)
    \/ \E i \in 1..4 : \E v \in CowValues : CowWrite(i, v)

SpecCow == InitCow /\ [][NextCow]_vars

(***************************************************************************)
(* examples/round_trip.rs : Context::fix_zero_freqs, the repair of a table *)
(* of frequencies that holds zeros.  st = [result, zero_count, i], i       *)
(* counting from 0 as in the code.                                         *)
(***************************************************************************)
\* for freq in result.iter_mut() { if *freq == 0 { *freq = 1; zero_count += 1 } }
fix_zero_freqs_mark(result) ==
    [result     |-> [k \in 1..Len(result) |-> IF result[k] = 0 THEN 1 ELSE result[k]],
     zero_count |-> Cardinality({k \in 1..Len(result) : result[k] = 0}),
     i          |-> 0]

\* body of the loop that takes from every entry above 0
fix_zero_freqs_step_takes_from_one(st) ==
    LET took == st.result[st.i + 1] > 0
    IN  [result     |-> IF took THEN [st.result EXCEPT ![st.i + 1] = @ - 1] ELSE st.result,
         zero_count |-> IF took THEN st.zero_count - 1 ELSE st.zero_count,
         i          |-> IF st.i + 1 >= Len(st.result) THEN 0 ELSE st.i + 1]

\* one round of while zero_count > 0 { .. }
fix_zero_freqs_step(st) ==
    LET took == st.result[st.i + 1] > 1
    IN  [result     |-> IF took THEN [st.result EXCEPT ![st.i + 1] = @ - 1] ELSE st.result,
         zero_count |-> IF took THEN st.zero_count - 1 ELSE st.zero_count,
         i          |-> IF st.i + 1 >= Len(st.result) THEN 0 ELSE st.i + 1]

\* the tables handed to the repair: up to MaxSymbols frequencies 0..MaxFreq
FixInputs == UNION {[1..n -> 0..MaxFreq] : n \in 0..MaxSymbols}

\* the call: the first loop has run, the second is about to test its condition
FixCall(input) ==
    /\ made.kind = "none"
    /\ made' = [kind |-> "fix", pc |-> "loop", input |-> input,
                st |-> fix_zero_freqs_mark(input)]
    /\ lastOp' = Op("fix_zero_freqs", 0, 0, 0)
    /\ SymFrame

FixStep ==
    /\ made.kind = "fix" /\ made.pc = "loop"
    /\ made.st.zero_count > 0
    /\ made' = [made EXCEPT !.st = fix_zero_freqs_step(made.st)]
    /\ UNCHANGED lastOp
    /\ SymFrame

FixReturn ==
    /\ made.kind = "fix" /\ made.pc = "loop"
    /\ made.st.zero_count = 0
    /\ made' = [made EXCEPT !.pc = "done"]
    /\ UNCHANGED lastOp
    /\ SymFrame

InitFix == InitWith({"byte"}, {1}, {"debug"}, {12}, {AmpleLen}, 0, 0)

NextFix ==
    \/ \E input \in FixInputs : FixCall(input)
    \/ FixStep
    \/ FixReturn

\* the loop is run by one thread that is never suspended for ever
SpecFix == InitFix /\ [][NextFix]_vars /\ WF_vars(FixStep) /\ WF_vars(FixReturn)

(***************************************************************************)
(* Round trips.                                                            *)
(***************************************************************************)
\* C1: byte-aligned variant, single stream, scale_bits 1..12: after put(s1) .. put(sn)
\* and flush(), a decoder over data() that repeats get / advance(the symbol whose
\* interval holds the slot) stays usable, and every get returns a slot inside the
\* interval of the latest symbol not yet undone: the symbols come back in reverse.
RoundTripByte ==
    (variant = "byte" /\ nch = 1 /\ phase = "dec" /\ schedM) =>
        /\ dec.status = "ok"
        /\ (lastOp.op = "get" /\ pend # <<>>) =>
                InInterval(lastOp.ret, scale, pend[Len(pend)].sym)

\* the last of MaxPuts symbols is read back after renormalization has consumed bytes
RoundTripByteSeen ==
    /\ variant = "byte" /\ nch = 1 /\ scale = 12 /\ phase = "dec" /\ schedM
    /\ Len(log) = MaxPuts + 1
    /\ Len(pend) = 1
    /\ dec.ptr > StateBytes(variant)
    /\ lastOp.op = "get"
    /\ InInterval(lastOp.ret, scale, pend[1].sym)

\* C2: word-aligned variant, single stream, scale_bits 1..16: the same round trip.
RoundTripWord ==
    (variant = "b64" /\ nch = 1 /\ phase = "dec" /\ schedM) =>
        /\ dec.status = "ok"
        /\ (lastOp.op = "get" /\ pend # <<>>) =>
                InInterval(lastOp.ret, scale, pend[Len(pend)].sym)

\* the last of MaxPuts symbols is read back after renormalization has consumed a word
RoundTripWordSeen ==
    /\ variant = "b64" /\ nch = 1 /\ scale = 16 /\ phase = "dec" /\ schedM
    /\ Len(log) = MaxPuts + 1
    /\ Len(pend) = 1
    /\ dec.ptr > StateBytes(variant)
    /\ lastOp.op = "get"
    /\ InInterval(lastOp.ret, scale, pend[1].sym)

\* C3: two channels, both variants: after rounds of put_at(0, a); put_at(1, b) and
\* flush_all(), a decoder that undoes the puts latest first obtains from get_at(0) a
\* slot of the symbols put on encoder channel 1 and from get_at(1) a slot of the
\* symbols put on encoder channel 0, each in reverse order of the puts.
RoundTripDuo ==
    (nch = 2 /\ phase = "dec" /\ schedM) =>
        /\ dec.status = "ok"
        /\ (lastOp.op = "get_at" /\ ExpectedM(lastOp.ch) # 0) =>
                InInterval(lastOp.ret, scale, ExpectedM(lastOp.ch))

\* second round of the schedule get_at(0); get_at(1); advance_step_at(0);
\* advance_step_at(1); renorm_all(): channel 1 yields the first symbol of channel 0
RoundTripDuoSeen ==
    /\ nch = 2 /\ phase = "dec" /\ schedM
    /\ Len(log) = MaxPuts + nch
    /\ Len(pend) = 2
    /\ lastOp = Op("get_at", 1, 0, lastOp.ret)
    /\ ExpectedM(1) = pend[1].sym
    /\ pend[1].ch = 0
    /\ pend[1].sym # pend[2].sym
    /\ dec.ptr > nch * StateBytes(variant)
    /\ InInterval(lastOp.ret, scale, pend[1].sym)

\* C4 as the specification states it: decoder channel c holds the symbols put on
\* encoder channel c, so that after put_at(0, s0); put_at(1, s1); put_at(0, s2);
\* flush_all() the first get_at(0) returns a slot of s2.
SameChannelReadsBack ==
    (nch = 2 /\ phase = "dec" /\ schedI /\ dec.status = "ok") =>
        \A c \in Channels :
            ExpectedI(c) # 0 =>
                InInterval(get_at(variant, dec, c, scale, build).ret, scale, ExpectedI(c))

\* C4 amended: decoder channel c holds the symbols put on encoder channel N - 1 - c.
\* At every point of the reverse schedule, get_at on a renormalized decoder channel c
\* returns a slot of the latest symbol not yet undone of encoder channel N - 1 - c.
MirrorChannelReadsBack ==
    (nch = 2 /\ phase = "dec" /\ schedM /\ dec.status = "ok") =>
        \A c \in Channels :
            ExpectedM(c) # 0 =>
                InInterval(get_at(variant, dec, c, scale, build).ret, scale, ExpectedM(c))

\* put_at(0, s0); put_at(1, s1); put_at(0, s2); flush_all(), then advance_at(1, s2) and
\* advance_at(0, s1) done: decoder channel 1 holds s0, which differs from s1
MirrorChannelSeen ==
    /\ nch = 2 /\ phase = "dec" /\ schedM /\ dec.status = "ok"
    /\ Len(log) = 3 + nch
    /\ log[2].sym # log[1].sym
    /\ Len(pend) = 1
    /\ lastOp.op = "advance_at" /\ lastOp.ch = 0 /\ lastOp.sym = log[2].sym
    /\ ExpectedM(1) = log[1].sym
    /\ InInterval(get_at(variant, dec, 1, scale, build).ret, scale, log[1].sym)

(***************************************************************************)
(* The encoder's output.                                                   *)
(***************************************************************************)
\* the states of all channels, the last channel first
RECURSIVE StatesDown(_, _)
StatesDown(states, i) == IF i < 1 THEN <<>> ELSE states[i] \o StatesDown(states, i - 1)

\* the groups of bytes a call stored, the last stored first
RECURSIVE LastFirst(_)
LastFirst(groups) ==
    IF groups = <<>> THEN <<>> ELSE LastFirst(Tail(groups)) \o Head(groups)

\* C5: flush_at(c) puts exactly W/8 bytes immediately before the previous data(), the
\* little-endian bytes of states[c]; a flush with no put before it yields [0,0,128,0]
\* (byte variant) and [0,0,0,128,0,0,0,0] (word variant); (0,2) then (2,2) put at
\* scale_bits 2 and flushed yield [2,0,0,2] in the byte variant.
FlushPrependsState ==
    /\ [](/\ (variant = "byte" /\ nch = 1 /\ enc.status = "ok"
                /\ log = <<Op("flush", 0, 0, 0)>>) =>
                    data(variant, enc) = <<0, 0, 128, 0>>
          /\ (variant = "b64" /\ nch = 1 /\ enc.status = "ok"
                /\ log = <<Op("flush", 0, 0, 0)>>) =>
                    data(variant, enc) = <<0, 0, 0, 128, 0, 0, 0, 0>>
          /\ (variant = "byte" /\ nch = 1 /\ scale = 2 /\ enc.status = "ok"
                /\ log = <<Op("put", 0, 1, 0), Op("put", 0, 2, 0), Op("flush", 0, 0, 0)>>) =>
                    data(variant, enc) = <<2, 0, 0, 2>>)
    /\ [][(lastOp'.op = "flush_at" /\ enc'.status = "ok") =>
            /\ Len(enc.states[lastOp'.ch + 1]) = StateBytes(variant)
            /\ data(variant, enc') = enc.states[lastOp'.ch + 1] \o data(variant, enc)]_vars

\* the second channel, moved off L by a put, is flushed before bytes already there
FlushPrependsSeen ==
    /\ nch = 2 /\ enc.status = "ok"
    /\ lastOp = Op("flush_at", 1, 0, 0)
    /\ len(variant, enc) > StateBytes(variant)
    /\ enc.states[2] # LowerBound(variant)
    /\ enc.states[1] # enc.states[2]
    /\ SubSeq(data(variant, enc), 1, StateBytes(variant)) = enc.states[2]

\* C6: between resets, every put_at and flush_at leaves the old data() as a suffix of
\* the new one and never increases the cursor, and every unit it emits lies
\* immediately before the cursor of the time of emission: the new data() is the
\* emitted units, the last emitted first, followed by the old data().
GrowsAtFront ==
    [][(lastOp'.op \in {"put_at", "flush_at"} /\ enc'.status = "ok") =>
        /\ enc'.ptr <= enc.ptr
        /\ enc.ptr - enc'.ptr = Len(enc'.out) * (IF lastOp'.op = "put_at"
                                                  THEN IoBytes(variant)
                                                  ELSE StateBytes(variant))
        /\ data(variant, enc') = LastFirst(enc'.out) \o data(variant, enc)]_vars

\* a put_at that emitted two different units in front of data already there
GrowsAtFrontSeen ==
    /\ enc.status = "ok"
    /\ lastOp.op = "put_at"
    /\ Len(enc.out) = 2
    /\ enc.out[1] # enc.out[2]
    /\ len(variant, enc) > 2 * IoBytes(variant)
    /\ SubSeq(data(variant, enc), 1, 2 * IoBytes(variant)) = enc.out[2] \o enc.out[1]

\* C7: reset() leaves data() empty and every channel state at L, and from then on the
\* encoder answers every sequence of calls as an encoder created afresh does: the
\* same data(), the same states, the same outcome of each call, whatever bytes the
\* calls before the reset left in the buffer.
ResetIsFresh ==
    /\ lastOp.op = "reset" =>
        /\ data(variant, enc) = <<>>
        /\ \A c \in Channels : enc.states[c + 1] = LowerBound(variant)
    /\ enc.status = ref.status
    /\ enc.status = "ok" =>
        /\ data(variant, enc) = data(variant, ref)
        /\ enc.states = ref.states

\* calls after a reset left data in a buffer that differs from the fresh encoder's
ResetIsFreshSeen ==
    /\ enc.status = "ok"
    /\ lastOp.op # "reset"
    /\ enc.dst # ref.dst
    /\ data(variant, enc) # <<>>
    /\ data(variant, enc) = data(variant, ref)

\* C8: flush_all() is flush_at(0); flush_at(1); ..; flush_at(N - 1): data() afterwards
\* begins with the state bytes of channel N - 1 and the state bytes of channel 0 come
\* last among the flushed states; on a fresh 2-channel byte encoder it yields
\* [0,0,128,0,0,0,128,0].
FlushAllAscending ==
    /\ [](variant = "byte" /\ nch = 2 /\ enc.status = "ok"
            /\ log = <<Op("flush", 0, 0, 0), Op("flush", 1, 0, 0)>>
            /\ lastOp.op = "flush_all"
                => data(variant, enc) = <<0, 0, 128, 0, 0, 0, 128, 0>>)
    /\ [][(lastOp'.op = "flush_all" /\ enc'.status = "ok") =>
            /\ data(variant, enc') = StatesDown(enc.states, nch) \o data(variant, enc)
            /\ enc' = IF nch = 1 THEN flush_at(variant, enc, 0, build)
                      ELSE flush_at(variant, flush_at(variant, enc, 0, build), 1, build)]_vars

\* flush_all() on two channels whose states differ
FlushAllSeen ==
    /\ nch = 2 /\ enc.status = "ok"
    /\ lastOp.op = "flush_all"
    /\ enc.states[1] # enc.states[2]
    /\ data(variant, enc) = enc.states[2] \o enc.states[1]

\* C9: whenever the encoder is usable, data() is the buffer from the write cursor to
\* its end, len() is buffer end minus write cursor in bytes, is_empty() holds exactly
\* when len() = 0; a fresh encoder has empty data().
DataIsBufferTail ==
    /\ enc.status = "ok" =>
        /\ data(variant, enc) = [k \in 1..(Len(enc.dst) - enc.ptr) |-> enc.dst[enc.ptr + k]]
        /\ len(variant, enc) = Len(enc.dst) - enc.ptr
        /\ is_empty(variant, enc) <=> len(variant, enc) = 0
    /\ lastOp.op = "new" => data(variant, enc) = <<>> /\ is_empty(variant, enc)

\* a word-aligned encoder holding emitted words and a flushed state
DataIsBufferTailSeen ==
    /\ variant = "b64" /\ enc.status = "ok"
    /\ enc.ptr > 0
    /\ len(variant, enc) > StateBytes(variant)
    /\ ~is_empty(variant, enc)
    /\ data(variant, enc)[1] # 0

(***************************************************************************)
(* The decoder.                                                            *)
(***************************************************************************)
\* C10: get_at(channel, scale_bits) returns states[channel] mod 2^scale_bits (the
\* state and the mask (1 << scale_bits) - 1) and changes nothing: states, read cursor
\* and data are as before, and a second get_at with the same arguments returns the
\* same value.
GetAtIsPure ==
    [][(lastOp'.op = "get_at" /\ dec.status = "ok") =>
        /\ dec' = dec
        /\ lastOp'.ret = ModSmall(dec.states[lastOp'.ch + 1], Pow2(scale))
        /\ lastOp'.ret = get_at(variant, dec', lastOp'.ch, scale, build).ret]_vars

\* get_at on the second channel of a decoder that has consumed bytes returned a
\* slot other than 0
GetAtSeen ==
    /\ nch = 2 /\ dec.status = "ok"
    /\ lastOp.op = "get_at" /\ lastOp.ch = 1
    /\ lastOp.ret # 0
    /\ dec.states[1] # dec.states[2]
    /\ dec.ptr > nch * StateBytes(variant)


(***************************************************************************)
(* The decoder's steps.                                                    *)
(***************************************************************************)
\* C11: from every decoder state, on every channel and with every symbol of the
\* table, advance_at leaves the decoder (states, cursor, outcome) exactly as
\* advance_step_at followed by renorm_at on that channel.
AdvanceIsStepThenRenorm ==
    DecReady =>
        \A c \in Channels : \A i \in 1..Len(dsyms) : \A junk \in JunkBytes :
            advance_at(variant, dec, c, dsyms[i], scale, build, junk)
                = renorm_at(variant,
                            advance_step_at(variant, dec, c, dsyms[i], scale, build),
                            c, build, junk)

\* an advance_at that steps the state and refills it from the buffer
AdvanceRefillSeen ==
    /\ DecReady
    /\ \E c \in Channels : \E i \in 1..Len(dsyms) :
          LET d == advance_at(variant, dec, c, dsyms[i], scale, build, 0)
          IN  /\ d.status = "ok"
              /\ d.ptr > dec.ptr
              /\ d.states[c + 1] # advance_step_at(variant, dec, c, dsyms[i], scale,
                                                   build).states[c + 1]

\* renorm_at on the channels 0, 1, ..., N - 1 in this order (N <= 2); a call that
\* fails ends the sequence
RenormAscending(d, junk) ==
    LET d0 == renorm_at(variant, d, 0, build, junk)
    IN  IF nch = 1 \/ d0.status # "ok" THEN d0
        ELSE renorm_at(variant, d0, 1, build, junk)

\* advance_step_at on every channel, first on channel `first`, then renorm_all;
\* syms[c + 1] is the symbol of channel c
Batched(d, syms, first, junk) ==
    LET other == 1 - first
        d0 == advance_step_at(variant, d, first, dsyms[syms[first + 1]], scale, build)
        d1 == IF nch = 1 THEN d0
              ELSE advance_step_at(variant, d0, other, dsyms[syms[other + 1]], scale, build)
    IN  renorm_all(variant, d1, build, junk)

\* advance_at on the channels 0, 1, ..., N - 1 in this order
OneByOne(d, syms, junk) ==
    LET d0 == advance_at(variant, d, 0, dsyms[syms[1]], scale, build, junk)
    IN  IF nch = 1 \/ d0.status # "ok" THEN d0
        ELSE advance_at(variant, d0, 1, dsyms[syms[2]], scale, build, junk)

\* C12: renorm_all is renorm_at on the channels in ascending order, and batching
\* is schedule-equivalent: advance_step_at on every channel in either order
\* followed by renorm_all ends as advance_at on the channels in ascending order
\* with the same symbols does: both fail or neither, and when neither fails they
\* leave the same states and the same cursor.
BatchingIsEquivalent ==
    DecReady =>
        \A junk \in JunkBytes :
            /\ renorm_all(variant, dec, build, junk) = RenormAscending(dec, junk)
            /\ \A syms \in [1..nch -> 1..Len(dsyms)] : \A first \in Channels :
                  LET b == Batched(dec, syms, first, junk)
                      o == OneByOne(dec, syms, junk)
                  IN  /\ b.status = o.status
                      /\ b.status = "ok" => b.states = o.states /\ b.ptr = o.ptr

\* a batch over two channels in which both renormalizations take bytes from the
\* buffer
BatchRefillsBothSeen ==
    /\ DecReady
    /\ nch = 2
    /\ \E syms \in [1..nch -> 1..Len(dsyms)] :
          LET d0 == advance_step_at(variant, dec, 0, dsyms[syms[1]], scale, build)
              d1 == advance_step_at(variant, d0, 1, dsyms[syms[2]], scale, build)
              r0 == renorm_at(variant, d1, 0, build, 0)
              r1 == renorm_at(variant, r0, 1, build, 0)
          IN  /\ r0.ptr > dec.ptr
              /\ r1.ptr > r0.ptr
              /\ r1.status = "ok"
              /\ Batched(dec, syms, 1, 0) = r1

\* freq * (x >> scale_bits) + (x & mask) - cum_freq in the width of the state
SteppedState(x, sym) ==
    Sub(Add(MulSmall(ShrBits(x, scale), freq(variant, sym)),
            FromNat(LowBits(x, scale), StateBytes(variant))),
        FromNat(cum_freq(variant, sym), StateBytes(variant)))

\* C13: advance_step_at on a channel below N changes states[channel] to
\* freq * (x >> scale_bits) + (x & mask) - cum_freq and nothing else: the read
\* cursor, the data and the other channels' states stay as they were.
StepTouchesOneState ==
    [][(lastOp'.op = "advance_step_at" /\ lastOp'.ch < nch) =>
            dec' = [dec EXCEPT !.states[lastOp'.ch + 1] =
                        SteppedState(dec.states[lastOp'.ch + 1], dsyms[lastOp'.sym])]]_vars

\* after advance_step_at the state of the channel is below L: nothing was read
SteppedBelowSeen ==
    /\ lastOp.op = "advance_step_at"
    /\ lastOp.ch < nch
    /\ dec.status = "ok"
    /\ Less(dec.states[lastOp.ch + 1], LowerBound(variant))
    /\ dec.ptr < Len(dec.data)

(***************************************************************************)
(* Checks on the arguments and on the cursors.                             *)
(***************************************************************************)
\* C14: new(data) over fewer than N * W / 8 bytes is rejected, so that a
\* construction never reads beyond the end of the data and leaves the read
\* cursor at most at len(data).
ShortDataRejected ==
    lastOp.op = "dec_new" =>
        IF Len(dec.data) < nch * StateBytes(variant) THEN dec.status = "panic"
        ELSE dec.status = "ok" /\ ~dec.oob /\ dec.ptr <= Len(dec.data)

\* L << IO_BITS: 2^31 byte-aligned, 2^63 word-aligned
UpperBound(v) == IF v = "byte" THEN OneShl(31, 4) ELSE OneShl(63, 8)

\* C15: after construction, after reset and after every sequence of put_at with
\* symbols of the table (scale_bits 1..12 byte-aligned, 1..16 word-aligned) every
\* channel's state x satisfies L <= x < L << IO_BITS.
StateInInterval ==
    enc.status = "ok" =>
        \A c \in 1..nch :
            /\ ~Less(enc.states[c], LowerBound(variant))
            /\ Less(enc.states[c], UpperBound(variant))

\* a put_at that renormalized: it wrote to the buffer and left a state other than L
PutRenormalizedSeen ==
    /\ lastOp.op = "put_at"
    /\ enc.status = "ok"
    /\ enc.out # <<>>
    /\ enc.states[lastOp.ch + 1] # LowerBound(variant)
    /\ Len(log) = MaxEncOps

\* C16: in a debug build no encoder symbol with freq = 0 or with
\* cum_freq + freq > 1 << scale_bits reaches put_at: EncSymbol::new rejects it.
InvalidSymbolRejected ==
    (build = "debug" /\ lastOp.op = "put_at" /\ made.kind = "enc") =>
        /\ made.freq >= 1
        /\ made.cum_freq + made.freq <= Pow2(made.scale_bits)

\* C17: in a debug build the channel assertion of put_at, flush_at, get_at,
\* advance_at, advance_step_at and renorm_at rejects every channel >= N, the
\* channel N included: such a call ends in the failure of that assertion.
OffChannelAsserted ==
    (build = "debug" /\ lastOp.ch >= nch) =>
        /\ lastOp.op \in {"put_at", "flush_at"} => enc.status = "assert"
        /\ lastOp.op \in {"get_at", "advance_at", "advance_step_at", "renorm_at"} =>
                dec.status = "assert"

\* C18: in a debug build every encoder that put_at and flush_at returned from
\* normally has its write cursor inside the buffer, start <= cursor <= end, and
\* every call that moved the cursor below the start of the buffer ended in an
\* assertion failure.
WriteCursorChecked ==
    build = "debug" =>
        /\ enc.status = "ok" => 0 <= enc.ptr /\ enc.ptr <= Len(enc.dst)
        /\ enc.ptr < 0 => enc.status = "assert"

\* a put_at or flush_at of a debug build that ran out of the buffer
WriteOverrunSeen ==
    /\ build = "debug"
    /\ lastOp.op \in {"put_at", "flush_at"}
    /\ lastOp.ch < nch
    /\ enc.ptr < 0
    /\ enc.status = "assert"

\* C19: in a debug build every decoder that advance_at and renorm_at returned
\* from normally has its read cursor at most at len(data), and every such call
\* that left the cursor beyond the end of the data ended in an assertion
\* failure.
ReadCursorChecked ==
    (build = "debug" /\ lastOp.op \in {"advance_at", "renorm_at"}) =>
        /\ dec.status = "ok" => 0 <= dec.ptr /\ dec.ptr <= Len(dec.data)
        /\ dec.ptr > Len(dec.data) => dec.status = "assert"

\* an advance_at or renorm_at of a debug build that read past the end of the data
ReadOverrunSeen ==
    /\ build = "debug"
    /\ lastOp.op \in {"advance_at", "renorm_at"}
    /\ lastOp.ch < nch
    /\ dec.ptr > Len(dec.data)
    /\ dec.status = "assert"

ConvenienceIsChannelZero ==
    nch = 1 =>
        /\ EncReady =>
              /\ \A i \in 1..Len(esyms) :
                    put(variant, enc, esyms[i], build)
                        = put_at(variant, enc, 0, esyms[i], build)
              /\ flush(variant, enc, build) = flush_at(variant, enc, 0, build)
        /\ DecReady =>
              /\ get(variant, dec, scale, build) = get_at(variant, dec, 0, scale, build)
              /\ \A i \in 1..Len(dsyms) : \A junk \in JunkBytes :
                    advance(variant, dec, dsyms[i], scale, build, junk)
                        = advance_at(variant, dec, 0, dsyms[i], scale, build, junk)

\* a single-stream decoder that advance has taken through a renormalization
AdvanceConvenienceSeen ==
    /\ nch = 1
    /\ lastOp.op = "advance"
    /\ dec.status = "ok"
    /\ dec.ptr > StateBytes(variant)
    /\ \E k \in 1..Len(log) : log[k].op = "put"

\* C22: a single stream in which every symbol carries its own scale_bits round
\* trips when the decoder takes, at every step, the scale_bits of the symbol it
\* is about to decode: every get returns a slot inside the interval of the
\* latest symbol not yet undone, and the decoder never leaves its data.
RoundTripMix ==
    (phase = "dec" /\ schedM) =>
        /\ dec.status = "ok"
        /\ (lastOp.op = "get" /\ pend # <<>>) =>
                InInterval(lastOp.ret, MixScale(pend[Len(pend)].sym),
                           MixId(pend[Len(pend)].sym))

\* between two symbols of one scale a symbol of the other scale was encoded; the
\* first of the three is read back after the other two were undone
RoundTripMixSeen ==
    /\ phase = "dec" /\ schedM
    /\ Len(log) = MaxPuts
    /\ MixScale(log[1].sym) # MixScale(log[2].sym)
    /\ MixScale(log[3].sym) # MixScale(log[2].sym)
    /\ Len(pend) = 1
    /\ dec.ptr > StateBytes(variant)
    /\ lastOp.op = "get"
    /\ InInterval(lastOp.ret, MixScale(pend[1].sym), MixId(pend[1].sym))

(***************************************************************************)
(* One put and its undoing.                                                *)
(***************************************************************************)
\* the two ends of the cumulative range at which a symbol of frequency 1 lies
MinSymEnds == {0, Pow2(scale) - 1}

\* the encoder after put_at(0, ..) of the symbol of frequency 1 at cum_freq cf
MinPut(cf) == put_at(variant, enc, 0, EncSymbolNew(variant, cf, 1, scale), build)

\* a decoder holding the states of encoder e, about to read what e has written
DecoderOver(e) ==
    [states |-> e.states, data |-> data(variant, e), ptr |-> 0, status |-> "ok",
     oob |-> FALSE]

\* C23: for every scale_bits of the variant, from every encoder state, a symbol
\* of frequency 1 at cum_freq 0 or (1 << scale_bits) - 1 round trips: after put_at
\* the decoder's get_at returns exactly cum_freq, and advance_at restores the
\* state held before the put, reading exactly what the put wrote.
MinFreqRoundTrips ==
    enc.status = "ok" =>
        \A cf \in MinSymEnds :
            LET e1 == MinPut(cf)
                d0 == DecoderOver(e1)
                d1 == advance_at(variant, d0, 0, DecSymbolNew(variant, cf, 1), scale,
                                 build, 0)
            IN  /\ e1.status = "ok"
                /\ get_at(variant, d0, 0, scale, build).ret = cf
                /\ d1.status = "ok"
                /\ d1.states[1] = enc.states[1]
                /\ d1.ptr = enc.ptr - e1.ptr

\* the symbol at the upper end, at the largest scale, put from a state other than
\* L: the put writes to the buffer
MinFreqEmitsSeen ==
    /\ enc.status = "ok"
    /\ scale = MaxScale(variant)
    /\ enc.states[1] # LowerBound(variant)
    /\ Less(LowerBound(variant), enc.states[1])
    /\ MinPut(Pow2(scale) - 1).ptr < enc.ptr
    /\ MinPut(Pow2(scale) - 1).status = "ok"

\* C24 as stated: in the byte-aligned variant (scale_bits <= 12) a put_at emits at
\* most one byte: for every state and every symbol of the table the state is
\* below x_max after one emission.
PutEmitsOneByte ==
    (variant = "byte" /\ enc.status = "ok") =>
        /\ \A c \in 1..nch : \A i \in 1..Len(esyms) :
              Less(ShrBits(enc.states[c], 8), esyms[i].symbol.x_max)
        /\ lastOp.op = "put_at" => Len(enc.out) <= 1

\* C24, amended: in the byte-aligned variant a put_at emits at most two bytes,
\* and at most one when scale_bits <= 8: for every state and every symbol of the
\* table the state is below x_max after two emissions, and after one when
\* scale_bits <= 8.
PutEmitsTwoBytes ==
    (variant = "byte" /\ enc.status = "ok") =>
        /\ \A c \in 1..nch : \A i \in 1..Len(esyms) :
              /\ Less(ShrBits(enc.states[c], 16), esyms[i].symbol.x_max)
              /\ scale <= 8 => Less(ShrBits(enc.states[c], 8), esyms[i].symbol.x_max)
        /\ lastOp.op = "put_at" => Len(enc.out) <= (IF scale <= 8 THEN 1 ELSE 2)

\* a put_at that emitted two bytes
PutEmitsTwoSeen ==
    /\ variant = "byte"
    /\ enc.status = "ok"
    /\ lastOp.op = "put_at"
    /\ Len(enc.out) = 2

\* floor(x / freq) * 2^scale_bits + (x mod freq) + cum_freq, two digits wider than
\* the state
ExactEncode(x, cf, f) ==
    LET n == StateBytes(variant) + 2
    IN  Add(Add(ShlBits(DivSmall(Resize(x, n), f), scale), FromNat(ModSmall(x, f), n)),
            FromNat(cf, n))

\* C25: for every symbol of the table (frequency 1 included) and every state,
\* the state put_at computes from the renormalized state x (the state shifted
\* right by the IO units the put emitted) is
\* floor(x / freq) * 2^scale_bits + (x mod freq) + cum_freq, and this value fits
\* the width of the state.
DivisionFreeIsExact ==
    [][(lastOp'.op = "put_at" /\ lastOp'.ch < nch) =>
            /\ enc'.status = "ok"
            /\ Resize(enc'.states[lastOp'.ch + 1], StateBytes(variant) + 2)
                    = ExactEncode(ShrBits(enc.states[lastOp'.ch + 1],
                                          8 * IoBytes(variant) * Len(enc'.out)),
                                  FreqTable(scale)[lastOp'.sym][1],
                                  FreqTable(scale)[lastOp'.sym][2])]_vars

\* after a put that renormalized, a put whose division left a remainder
InexactDivisionSeen ==
    /\ enc.status = "ok"
    /\ lastOp.op = "put_at"
    /\ FreqTable(scale)[lastOp.sym][2] > 2
    /\ LowBits(enc.states[lastOp.ch + 1], scale) # FreqTable(scale)[lastOp.sym][1]
    /\ enc.ptr < Len(enc.dst)

\* L <= x < L << IO_BITS
InStateRange(x) == ~Less(x, LowerBound(variant)) /\ Less(x, UpperBound(variant))

\* the single-stream decoder after advance_step_at by the symbol of scale sc whose
\* interval holds the current slot, followed by renorm_at, in build b
SteppedAndRenormed(sc, b, junk) ==
    LET syms  == IF sc = scale THEN dsyms ELSE DecSyms(variant, sc)
        found == get_symbol(variant, syms, get_at(variant, dec, 0, sc, b).ret)
    IN  renorm_at(variant, advance_step_at(variant, dec, 0, syms[found], sc, b), 0, b, junk)

\* C26: when the state of a channel is in [L, L << IO_BITS) and advance_step_at
\* is applied with the table symbol whose interval holds the current slot, the
\* state is again in [L, L << IO_BITS) when renorm_at returns, whatever it read
\* (bytes of the data, or bytes from beyond its end).  The release build returns
\* wherever the debug build does, and also where the debug build fails its
\* pointer assertion.
RenormRestoresRange ==
    (DecReady /\ InStateRange(dec.states[1])) =>
        \A sc \in {scale, OtherScale} : \A junk \in JunkBytes :
            LET d == SteppedAndRenormed(sc, "release", junk)
            IN  /\ d.status \in {"ok", "ub"}
                /\ InStateRange(d.states[1])

\* a byte-aligned renorm_at that read the last byte of the data and one byte from
\* beyond their end
RenormReadsBeyondSeen ==
    /\ DecReady
    /\ variant = "byte"
    /\ InStateRange(dec.states[1])
    /\ dec.ptr + 1 = Len(dec.data)
    /\ \E sc \in {scale, OtherScale} :
          /\ SteppedAndRenormed(sc, "release", 255).status = "ub"
          /\ SteppedAndRenormed(sc, "release", 255).ptr = dec.ptr + 2

(***************************************************************************)
(* The decoder at its two ends.                                            *)
(***************************************************************************)
\* the encoder's last call was flush_all: the log ends with the flush of every
\* channel in ascending order
EndsWithFlushAll ==
    /\ Len(log) >= nch
    /\ \A c \in 1..nch : log[Len(log) - nch + c] = Op("flush", c - 1, 0, 0)

\* C27: new over data of at least N * W / 8 bytes sets states[i], for i = 0 ..
\* N - 1, to the little-endian value of the bytes [i * W / 8, (i + 1) * W / 8) of
\* the data (a state is held as its bytes, least significant first) and leaves
\* the read cursor at N * W / 8; over what flush_all wrote last, states[i] is
\* the encoder's states[N - 1 - i].
NewReadsStates ==
    (lastOp.op = "dec_new" /\ Len(dec.data) >= nch * StateBytes(variant)) =>
        /\ dec.status = "ok"
        /\ dec.ptr = nch * StateBytes(variant)
        /\ \A i \in Channels :
              /\ dec.states[i + 1] = SubSeq(dec.data, i * StateBytes(variant) + 1,
                                           (i + 1) * StateBytes(variant))
              /\ EndsWithFlushAll => dec.states[i + 1] = enc.states[nch - i]

\* a decoder of two channels over flush_all of two different states
NewOverFlushAllSeen ==
    /\ lastOp.op = "dec_new"
    /\ nch = 2
    /\ EndsWithFlushAll
    /\ dec.status = "ok"
    /\ enc.states[1] # enc.states[2]
    /\ dec.states[1] = enc.states[2]

(***************************************************************************)
(* Channels of one encoder.                                                *)
(***************************************************************************)
\* a fresh single-stream encoder that holds the state x
SoloEncoder(x) == [EncoderNew(variant, max_len, 1) EXCEPT !.states = <<x>>]

\* C28: put_at(c, sym) changes no state but states[c], and the new states[c] is
\* the state a single-stream encoder with its own buffer reaches from the old
\* states[c] by the same symbol: step by step, the state of a channel depends
\* only on the symbols put on that channel, whatever the other channels hold
\* and whatever they wrote to the shared buffer.
ChannelsAreIndependent ==
    [][(lastOp'.op = "put_at" /\ lastOp'.ch < nch) =>
            /\ enc'.status = "ok"
            /\ \A k \in 1..nch :
                  IF k # lastOp'.ch + 1 THEN enc'.states[k] = enc.states[k]
                  ELSE enc'.states[k] =
                            put_at(variant, SoloEncoder(enc.states[k]), 0,
                                   esyms[lastOp'.sym], build).states[1]]_vars

\* puts on channel 0, channel 1 and channel 0 again, which emitted
InterleavedPutsSeen ==
    /\ nch = 2
    /\ enc.status = "ok"
    /\ Len(log) = MaxEncOps
    /\ log[1].ch = 0 /\ log[2].ch = 1 /\ log[3].ch = 0
    /\ log[1].sym # log[2].sym
    /\ enc.states[1] # enc.states[2]
    /\ enc.ptr < Len(enc.dst)

(***************************************************************************)
(* The end of a complete decode.                                           *)
(***************************************************************************)
\* every encoded symbol was undone by the mirrored schedule and no channel is
\* left stepped without its renormalization
DecodedAll ==
    /\ phase = "dec"
    /\ schedM
    /\ pend = <<>>
    /\ \A c \in 1..nch : ~stepd[c]

\* C29: when a decoder built over the data() of an encoder flushed by flush_all has
\* undone, by a valid mirrored schedule, exactly the symbols that were put, the
\* decoder is usable, every channel state is L again and the read cursor is at
\* len(data): every byte was read and none beyond the end.
DecodeReturnsToStart ==
    DecodedAll =>
        /\ dec.status = "ok"
        /\ ~dec.oob
        /\ \A c \in 1..nch : dec.states[c] = LowerBound(variant)
        /\ dec.ptr = Len(dec.data)

\* MaxPuts symbols on two channels were undone, and they had emitted IO units
\* beside the flushed states
DecodedAllSeen ==
    /\ DecodedAll
    /\ nch = 2
    /\ Len(log) = MaxPuts + nch
    /\ log[1].sym # log[2].sym
    /\ Len(dec.data) > nch * StateBytes(variant)
    /\ lastOp.op = "renorm_all"

(***************************************************************************)
(* Stores and the start of the buffer.                                     *)
(***************************************************************************)
\* C30: no put_at and no flush_at stores an IO unit below the start of the
\* buffer: when the operation emits more bytes than are free before the write
\* cursor, this is detected before the first store.
NoStoreBelowStart ==
    lastOp.op \in {"put_at", "put", "flush_at", "flush", "flush_all"} => ~enc.oob

(***************************************************************************)
(* What flush_at leaves alone.                                             *)
(***************************************************************************)
\* C31: flush_at(c) changes the write cursor and the W/8 bytes before the old
\* cursor and nothing else: every state register, states[c] included, and every
\* other byte of the buffer is as before; a second flush_at(c) stores the same
\* W/8 bytes again; a put_at(c, sym) after flush_at(c) encodes from the state the
\* channel had before the flush.  No call is refused for coming after a flush.
FlushKeepsStates ==
    [][/\ (lastOp'.op = "flush_at" /\ lastOp'.ch < nch /\ enc'.status = "ok") =>
            /\ enc'.states = enc.states
            /\ enc'.ptr = enc.ptr - StateBytes(variant)
            /\ \A k \in 1..Len(enc.dst) :
                    (k <= enc'.ptr \/ k > enc.ptr) => enc'.dst[k] = enc.dst[k]
            /\ lastOp = lastOp' => enc'.out = enc.out
       /\ (lastOp'.op = "put_at" /\ lastOp'.ch < nch /\ lastOp.op = "flush_at"
                /\ lastOp.ch = lastOp'.ch) =>
            /\ enc'.status = "ok"
            /\ enc'.states[lastOp'.ch + 1] =
                    put_at(variant, SoloEncoder(enc.states[lastOp'.ch + 1]), 0,
                           esyms[lastOp'.sym], build).states[1]]_vars

\* channel 1 was put on, flushed twice and put on again
PutAfterFlushSeen ==
    /\ nch = 2 /\ enc.status = "ok"
    /\ Len(log) = MaxEncOps
    /\ log[1].op = "put" /\ log[1].ch = 1
    /\ log[2] = Op("flush", 1, 0, 0)
    /\ log[3] = Op("flush", 1, 0, 0)
    /\ lastOp.op = "put_at" /\ lastOp.ch = 1
    /\ enc.states[2] # LowerBound(variant)
    /\ LET d == data(variant, enc)
           w == StateBytes(variant)
       IN  SubSeq(d, Len(d) - 2 * w + 1, Len(d) - w) = SubSeq(d, Len(d) - w + 1, Len(d))

(***************************************************************************)
(* The number of emissions of a put.                                       *)
(***************************************************************************)
\* x_max of symbol i of the table: the state a put renormalizes down below
XMax(i) ==
    IF variant = "byte" THEN esyms[i].symbol.x_max
    ELSE MulSmall(ShlBits(ShrBits(RANS64_L, esyms[i].scale_bits), 32), esyms[i].symbol.freq)

RenormTerminates ==
    (lastOp.op = "renorm_at" /\ lastOp.ch < nch /\ dec.status # "panic") =>
        /\ variant = "byte" => ~Less(dec.states[lastOp.ch + 1], RANS_BYTE_L)
        /\ dec.ptr <= Len(dec.data) + StateBytes(variant)

(***************************************************************************)
(* The input of the decoder.                                               *)
(***************************************************************************)
\* C34: the decoder never writes to its input: after new and after every
\* get_at, advance_step_at, renorm_at, renorm_all and advance_at (get and advance
\* included) the bytes of data are the bytes that were passed to new; a call
\* changes the states and the read cursor only, and never lowers the cursor.
DecoderReadsOnly ==
    /\ [](phase = "dec" => dec.data = data(variant, enc))
    /\ [][phase = "dec" => dec'.data = dec.data /\ dec'.ptr >= dec.ptr]_vars

\* an advance_at that refilled its state from the data
DecoderConsumedSeen ==
    /\ phase = "dec" /\ dec.status = "ok"
    /\ lastOp.op = "advance_at"
    /\ dec.ptr > nch * StateBytes(variant)
    /\ dec.data = data(variant, enc)
    /\ dec.data # <<>>

(***************************************************************************)
(* An encoder that is exactly full.                                        *)
(***************************************************************************)
\* C35: the buffer of new(max_len) holds max_len bytes (byte-aligned) or
\* 4 * floor(max_len / 4) bytes (word-aligned); a call that brings the write
\* cursor exactly to the start of the buffer passes the cursor check, and
\* data() is then the whole buffer; new(4) byte-aligned and new(8) word-aligned
\* followed by one flush_at with no put succeed.
ExactFitAccepted ==
    /\ Len(enc.dst) = (IF variant = "byte" THEN max_len ELSE 4 * (max_len \div 4))
    /\ enc.ptr = 0 =>
            /\ enc.status = "ok"
            /\ data(variant, enc) = enc.dst
            /\ len(variant, enc) = Len(enc.dst)
    /\ (nch = 1 /\ log = <<Op("flush", 0, 0, 0)>> /\ max_len = StateBytes(variant)) =>
            /\ enc.status = "ok"
            /\ data(variant, enc) = LowerBound(variant)

\* a byte-aligned encoder of odd capacity filled to the last byte by a debug build
ExactFitSeen ==
    /\ variant = "byte" /\ build = "debug"
    /\ max_len = TightLen
    /\ enc.ptr = 0 /\ enc.status = "ok"
    /\ lastOp.op = "put_at"
    /\ Len(enc.out) = 1
    /\ len(variant, enc) = TightLen

(***************************************************************************)
(* MutCow.                                                                 *)
(***************************************************************************)
\* the bytes b after the stores ws, in their order
RECURSIVE Written(_, _)
Written(b, ws) ==
    IF ws = <<>> THEN b
    ELSE Written([b EXCEPT ![Head(ws)[1]] = Head(ws)[2]], Tail(ws))

\* C36: a MutCow built from a mutable borrow of a slice or of an array aliases
\* the buffer of the caller: the bytes seen through it and the bytes of the
\* caller's buffer are the same, both holding every store made through it; a
\* MutCow built from an owned Vec (or from an array by value) holds the bytes
\* it was given together with the stores made through it.  The fixture:
\* [1, 2, 3, 4] with mut_cow[0] = 5 reads [5, 2, 3, 4].
MutCowAliases ==
    made.kind = "cow" =>
        /\ MutCow_deref(made.cow, made.caller) = Written(made.given, made.writes)
        /\ made.how \in {"slice", "array_ref"} =>
                /\ made.cow.tag = "Borrowed"
                /\ made.caller = Written(made.given, made.writes)
        /\ made.how \in {"array", "vec"} => made.cow.tag = "Owned"
        /\ made.how = "array" => made.caller = made.given
        /\ (made.given = <<1, 2, 3, 4>> /\ made.writes = <<<<1, 5>>>>) =>
                MutCow_deref(made.cow, made.caller) = <<5, 2, 3, 4>>

\* two stores through a borrow of the slice [1, 2, 3, 4], the first of them
\* mut_cow[0] = 5, are in the caller's buffer
MutCowBorrowWrittenSeen ==
    /\ made.kind = "cow" /\ made.how = "slice"
    /\ made.given = <<1, 2, 3, 4>>
    /\ Len(made.writes) = MaxWrites
    /\ made.writes[1] = <<1, 5>>
    /\ made.caller[1] = 5
    /\ made.caller # made.given

(***************************************************************************)
(* The repair of zero frequencies.                                         *)
(***************************************************************************)
RECURSIVE SumOf(_)
SumOf(fs) == IF fs = <<>> THEN 0 ELSE Head(fs) + SumOf(Tail(fs))

\* C37: fix_zero_freqs returns whenever the sum of the frequencies it is given is
\* at least their number, and the table it returns has every frequency >= 1 and
\* the sum of the table it was given; when there are more frequencies than
\* their sum, it never returns.
FixZeroFreqsRepairs ==
    /\ [](made.kind = "fix" /\ made.pc = "done" =>
            /\ \A k \in 1..Len(made.st.result) : made.st.result[k] >= 1
            /\ Len(made.st.result) = Len(made.input)
            /\ SumOf(made.st.result) = SumOf(made.input)
            /\ SumOf(made.input) >= Len(made.input))
    /\ (made.kind = "fix" /\ SumOf(made.input) >= Len(made.input))
            ~> (made.kind = "fix" /\ made.pc = "done")

\* two zeros were repaired from one entry, reached in the second pass over the table
FixTookTwiceSeen ==
    /\ made.kind = "fix" /\ made.pc = "done"
    /\ Len(made.input) = 3
    /\ made.input[1] = 0 /\ made.input[2] = 0 /\ made.input[3] >= 3
    /\ made.st.result = <<1, 1, made.input[3] - 2>>

====
